---------------------------- MODULE Spec2Model ----------------------------
(***************************************************************************)
(* Formulation engine of the soap calculator: the recipe accumulator       *)
(* (src/src/models/calculator.py), the oil reference table and quality     *)
(* aggregator (src/src/data/oils.py) and the additive table                *)
(* (src/src/data/additives.py), and the ingredient cost store               *)
(* (src/src/models/cost_manager.py).                                       *)
(*                                                                         *)
(* Numbers.  Python floats are fixed-point integers, one scale per kind of *)
(* quantity (TLC integers are 32 bits wide, so the scales are the smallest *)
(* that make every input drawn here exact):                                *)
(*   weights and SAP values   thousandths   (1 g is G, 0.183 is 183)       *)
(*   water_to_lye_ratio       tenths        (2.0 is 20)                    *)
(*   percentages, fatty acids, qualities, iodine, ins: whole numbers       *)
(*   rounded percentages of get_batch_properties: hundredths               *)
(*   prices                   thousandths of a dollar                      *)
(*   stock quantities         hundredths of the stored unit                *)
(* Products and quotients are kept as exact fractions num/den until the    *)
(* code rounds them.  Python rounds the binary float, this model rounds    *)
(* the exact rational (half to even); the two can differ only when the     *)
(* exact value lies on a rounding tie.                                     *)
(***************************************************************************)
EXTENDS Integers, FiniteSets, Sequences, TLC

VARIABLES
    oils,                \* self.oils: oil name -> weight
    superfat_percent,    \* self.superfat_percent
    water_to_lye_ratio,  \* self.water_to_lye_ratio
    lye_type,            \* self.lye_type
    total_batch_weight,  \* self.total_batch_weight
    unit_system,         \* self.unit_system
    water_calc_method,   \* self.water_calc_method
    water_percent,       \* self.water_percent
    lye_concentration,   \* self.lye_concentration
    additives,           \* self.additives: additive name -> grams
    ADDITIVES,           \* the module-level additive table (mutable)
    OILS,                \* the module-level oil table (mutable)
    costs,               \* CostManager.costs: name -> price, quantity, unit
    ledger,              \* per name: what the add_stock calls paid and bought
    ingredients,         \* GummyCalculator.ingredients: name -> weight
    gummy_total_weight,  \* GummyCalculator.total_weight
    target_brix,         \* GummyCalculator.target_brix
    recipe_dict,         \* the record get_recipe_dict last handed to a caller
    batches,             \* BatchManager.batches, newest first
    ops,                 \* number of calls made so far
    last                 \* the latest call: <<name, arguments...>>

fields == <<oils, superfat_percent, water_to_lye_ratio, lye_type,
            total_batch_weight, unit_system, water_calc_method,
            water_percent, lye_concentration, additives>>

vars == <<oils, superfat_percent, water_to_lye_ratio, lye_type,
          total_batch_weight, unit_system, water_calc_method,
          water_percent, lye_concentration, additives, ADDITIVES, OILS,
          costs, ledger, ingredients, gummy_total_weight, target_brix,
          recipe_dict, batches, ops, last>>

\* The fields of a GummyCalculator.
gummy == <<ingredients, gummy_total_weight, target_brix>>

-----------------------------------------------------------------------------
(* Bounds and fixed-point helpers *)

\* Longest sequence of calls explored.
MaxOps == 3

\* Heaviest oil entry (in thousandths of a gram) a scaling may produce;
\* repeated scalings of a recipe with a near-zero total grow without limit.
MaxWeight == 10000

\* One gram, and 1.000 of a SAP value.
G == 10 * 100

\* The Python value None; an optional number is None or <<number>>.
None == <<>>

Max(a, b) == IF a >= b THEN a ELSE b
Min(a, b) == IF a <= b THEN a ELSE b

\* Nearest integer to n/d (d # 0), ties to the even neighbour, as round().
RoundHalfEven(n, d) ==
    LET nn == IF d < 0 THEN -n ELSE n
        dd == IF d < 0 THEN -d ELSE d
        q  == nn \div dd
        r  == nn - q * dd
    IN  IF 2 * r < dd THEN q
        ELSE IF 2 * r > dd THEN q + 1
        ELSE IF q % 2 = 0 THEN q ELSE q + 1

\* round(x, 2) of the weight x = n/d thousandths, in thousandths.
Round2(n, d) == 10 * RoundHalfEven(n, 10 * d)

\* round(x, 2) of the plain number x = n/d, in hundredths.  The whole part
\* of x is split off first so that no product leaves 32 bits.
Round2H(n, d) ==
    LET nn == IF d < 0 THEN -n ELSE n
        dd == IF d < 0 THEN -d ELSE d
    IN  100 * (nn \div dd) + RoundHalfEven(100 * (nn % dd), dd)

\* round(a * k / d) for d > 0, ties to even.  The whole part of a / d is
\* split off first so that no product leaves 32 bits.
RoundProduct(a, k, d) ==
    LET t == (a % d) * k
        q == (a \div d) * k + (t \div d)
        r == t % d
    IN  IF 2 * r < d THEN q
        ELSE IF 2 * r > d THEN q + 1
        ELSE IF q % 2 = 0 THEN q ELSE q + 1

\* dict helpers
Get(d, k, default) == IF k \in DOMAIN d THEN d[k] ELSE default
Put(d, k, v) == [x \in (DOMAIN d) \cup {k} |-> IF x = k THEN v ELSE d[x]]
Del(d, k) == [x \in (DOMAIN d) \ {k} |-> d[x]]

RECURSIVE SumOver(_, _)
\* sum of f[x] over x in S
SumOver(f, S) ==
    IF S = {} THEN 0
    ELSE LET x == CHOOSE y \in S : TRUE
         IN  f[x] + SumOver(f, S \ {x})

-----------------------------------------------------------------------------
(* Reference tables *)

fa_keys == {"lauric", "myristic", "palmitic", "stearic", "oleic",
            "linoleic", "linolenic", "ricinoleic"}

quality_keys == {"hardness", "cleansing", "bubbly", "creamy", "conditioning"}

\* _calc_qualities(fa, override=None); fatty-acid values are whole numbers.
_calc_qualities(fa, override) ==
    IF DOMAIN override # {} THEN override
    ELSE [hardness     |-> Get(fa, "lauric", 0) + Get(fa, "myristic", 0)
                           + Get(fa, "palmitic", 0) + Get(fa, "stearic", 0),
          cleansing    |-> Get(fa, "lauric", 0) + Get(fa, "myristic", 0),
          bubbly       |-> Get(fa, "lauric", 0) + Get(fa, "myristic", 0)
                           + Get(fa, "ricinoleic", 0),
          creamy       |-> Get(fa, "palmitic", 0) + Get(fa, "stearic", 0)
                           + Get(fa, "ricinoleic", 0),
          conditioning |-> Get(fa, "ricinoleic", 0) + Get(fa, "oleic", 0)
                           + Get(fa, "linoleic", 0) + Get(fa, "linolenic", 0)]

Coconut76FA == [lauric |-> 48, myristic |-> 19, palmitic |-> 9, stearic |-> 3,
                ricinoleic |-> 0, oleic |-> 8, linoleic |-> 2, linolenic |-> 0]
OliveFA == [lauric |-> 0, myristic |-> 0, palmitic |-> 14, stearic |-> 3,
                ricinoleic |-> 0, oleic |-> 69, linoleic |-> 12, linolenic |-> 1]
PalmFA == [lauric |-> 0, myristic |-> 1, palmitic |-> 44, stearic |-> 5,
                ricinoleic |-> 0, oleic |-> 39, linoleic |-> 10, linolenic |-> 0]
FractionatedFA == [lauric |-> 2, myristic |-> 1, palmitic |-> 0, stearic |-> 0,
                ricinoleic |-> 0, oleic |-> 0, linoleic |-> 0, linolenic |-> 0]

\* Four rows of OILS.  sap_* are thousandths (0.183 is 183); iodine, ins,
\* fa and qualities are the table's whole numbers.  No row is named
\* "Coconut Oil".
BuiltinOILS ==
    [n \in {"Coconut Oil, 76 deg", "Coconut Oil, fractionated",
            "Olive Oil", "Palm Oil"} |->
        CASE n = "Coconut Oil, 76 deg" ->
                [sap_koh |-> 257, sap_naoh |-> 183, iodine |-> 10, ins |-> 258,
                 fa |-> Coconut76FA,
                 qualities |-> _calc_qualities(Coconut76FA, None)]
          [] n = "Coconut Oil, fractionated" ->
                [sap_koh |-> 325, sap_naoh |-> 232, iodine |-> 1, ins |-> 324,
                 fa |-> FractionatedFA,
                 qualities |-> [hardness |-> 100, cleansing |-> 100,
                                bubbly |-> 100, creamy |-> 0,
                                conditioning |-> 0]]
          [] n = "Olive Oil" ->
                [sap_koh |-> 190, sap_naoh |-> 135, iodine |-> 85, ins |-> 105,
                 fa |-> OliveFA,
                 qualities |-> _calc_qualities(OliveFA, None)]
          [] n = "Palm Oil" ->
                [sap_koh |-> 199, sap_naoh |-> 142, iodine |-> 53, ins |-> 145,
                 fa |-> PalmFA,
                 qualities |-> _calc_qualities(PalmFA, None)]]

\* f"sap_{lye_type.lower()}"
SapKey(lt) ==
    CASE lt = "NaOH"    -> "sap_naoh"
      [] lt = "KOH"     -> "sap_koh"
      [] lt = "90% KOH" -> "sap_90% koh"
      [] lt = "LiOH"    -> "sap_lioh"
      [] OTHER          -> "sap_?"

get_oil_sap_default(oil_name, lt) ==
    IF oil_name \notin DOMAIN OILS THEN 135
    ELSE Get(OILS[oil_name], SapKey(lt), 0)

get_oil_sap(oil_name, lt) ==
    IF oil_name \notin DOMAIN OILS THEN 0
    ELSE Get(OILS[oil_name], SapKey(lt), 0)

\* The ADDITIVES literal: every row has water_percent_adjust 0.0.
BuiltinAdditive(repl, pct) ==
    [water_percent_adjust |-> 0, default_percent_of_oils |-> pct,
     is_water_replacement |-> repl]

BuiltinADDITIVES ==
    [n \in {"Goat Milk (Liquid)", "Goat Milk (Powder)",
            "Coconut Milk (Liquid)", "Honey", "Sugar", "Salt", "Kaolin Clay",
            "Sodium Lactate", "Fragrance / Essential Oil"} |->
        CASE n = "Goat Milk (Liquid)"    -> BuiltinAdditive(TRUE, 0)
          [] n = "Coconut Milk (Liquid)" -> BuiltinAdditive(TRUE, 0)
          [] n = "Honey"                 -> BuiltinAdditive(FALSE, 2)
          [] n = "Sodium Lactate"        -> BuiltinAdditive(FALSE, 3)
          [] n = "Fragrance / Essential Oil" -> BuiltinAdditive(FALSE, 3)
          [] OTHER                       -> BuiltinAdditive(FALSE, 1)]


CustomAdditiveNames == {"Aloe Juice"}

\* Rows the ingredient editor can store with add_additive_entry.
CustomAdditiveInfos ==
    { [water_percent_adjust |-> -5, default_percent_of_oils |-> 0,
       is_water_replacement |-> FALSE],
      [water_percent_adjust |-> 10, default_percent_of_oils |-> 0,
       is_water_replacement |-> TRUE] }

-----------------------------------------------------------------------------
(* SoapCalculator queries *)

\* sum(o.values())
total_of(o) == SumOver(o, DOMAIN o)

get_total_oil_weight == total_of(oils)

\* pure_lye of get_lye_weight, times G: sum of weight * sap_value.
pure_lye(o, lt) ==
    SumOver([n \in DOMAIN o |-> o[n] * get_oil_sap(n, lt)], DOMAIN o)

\* The discount with its sign slipped: 1 + superfat_percent / 100.
lye_weight_surcharged(o, sf, lt) ==
    LET num == pure_lye(o, lt) * (100 + sf)
        den == G * 100
    IN  IF lt = "90% KOH"
        THEN Round2(num, (den \div 100) * 90)
        ELSE Round2(num, den)

\* get_lye_weight after its total_oil == 0 return: the superfat discount,
\* the division by 0.90 and the rounding.
lye_weight_rounded(o, sf, lt) ==
    LET den == G * 100
    IN  IF lt = "90% KOH"
        THEN 10 * RoundProduct(pure_lye(o, lt), 100 - sf,
                               10 * (den \div 100) * 90)
        ELSE 10 * RoundProduct(pure_lye(o, lt), 100 - sf, 10 * den)

\* get_lye_weight without the early return for a zero total.
lye_weight_unguarded(o, sf, lt) == lye_weight_rounded(o, sf, lt)

\* get_lye_weight of a calculator holding oils o, superfat sf, lye type lt.
lye_weight(o, sf, lt) ==
    IF total_of(o) = 0 THEN 0 ELSE lye_weight_rounded(o, sf, lt)

get_lye_weight == lye_weight(oils, superfat_percent, lye_type)

\* ADDITIVES.get(name, {}).get(key, default)
additive_info(name, key, default) ==
    Get(Get(ADDITIVES, name, <<>>), key, default)

\* additive_adjust of get_water_weight, for the additive map ad.
adjust_of(ad) ==
    SumOver([n \in DOMAIN ad |-> additive_info(n, "water_percent_adjust", 0)],
            DOMAIN ad)

additive_adjust == adjust_of(additives)

\* replacement_total of get_water_weight, for the additive map ad.
replacement_of(ad) ==
    SumOver([n \in DOMAIN ad |->
                IF additive_info(n, "is_water_replacement", FALSE)
                THEN ad[n] ELSE 0],
            DOMAIN ad)

replacement_total == replacement_of(additives)

\* method_water with the ratio as the fallback for a concentration that is out
\* of range.
method_water_ratio_fallback ==
    LET lye == get_lye_weight
    IN  CASE water_calc_method = "percent" ->
                <<get_total_oil_weight
                    * Max(0, water_percent + additive_adjust), 100>>
          [] water_calc_method = "concentration"
                /\ lye_concentration > 0 /\ lye_concentration < 100 ->
                <<lye * (100 - lye_concentration), lye_concentration>>
          [] OTHER ->
                <<lye * water_to_lye_ratio, 10>>

\* water_weight before the replacements are taken off, as the fraction
\* <<num, den>> of thousandths.
method_water ==
    LET lye == get_lye_weight
    IN  CASE water_calc_method = "ratio" ->
                <<lye * water_to_lye_ratio, 10>>
          [] water_calc_method = "percent" ->
                <<get_total_oil_weight
                    * Max(0, water_percent + additive_adjust), 100>>
          [] water_calc_method = "concentration" ->
                IF lye_concentration > 0 /\ lye_concentration < 100
                THEN <<lye * (100 - lye_concentration), lye_concentration>>
                ELSE <<0, 1>>
          [] OTHER ->
                <<lye * water_to_lye_ratio, 10>>

\* The wrong order: replacements taken off the basis the method multiplies.
get_water_weight_subtract_first ==
    IF get_lye_weight = 0 THEN 0
    ELSE LET lye == get_lye_weight - replacement_total
             oil == get_total_oil_weight - replacement_total
             w == CASE water_calc_method = "percent" ->
                        <<oil * Max(0, water_percent + additive_adjust), 100>>
                    [] water_calc_method = "concentration" ->
                        IF lye_concentration > 0 /\ lye_concentration < 100
                        THEN <<lye * (100 - lye_concentration),
                               lye_concentration>>
                        ELSE <<0, 1>>
                    [] OTHER -> <<lye * water_to_lye_ratio, 10>>
         IN  Round2(Max(0, w[1]), w[2])

\* A replacement total that counts every additive, flagged or not.
get_water_weight_all_replace ==
    IF get_lye_weight = 0 THEN 0
    ELSE LET w == method_water
         IN  Round2(Max(0, w[1] - SumOver(additives, DOMAIN additives) * w[2]),
                    w[2])

get_water_weight ==
    IF get_lye_weight = 0 THEN 0
    ELSE LET w == method_water
         IN  Round2(Max(0, w[1] - replacement_total * w[2]), w[2])

\* fa_totals of get_batch_properties, times 100: sum of weight * fa_val.
fa_totals(o) ==
    [k \in fa_keys |->
        SumOver([n \in DOMAIN o |->
                    o[n] * Get(Get(Get(OILS, n, <<>>), "fa", <<>>), k, 0)],
                DOMAIN o)]

\* _calculate_iodine_value as the fraction <<num, den>>.  The rows of OILS
\* hold the key "iodine"; the code asks for "iodine_value".
_calculate_iodine_value ==
    IF get_total_oil_weight = 0 THEN <<0, 1>>
    ELSE <<SumOver([n \in DOMAIN oils |->
                       IF n \in DOMAIN OILS
                       THEN oils[n] * Get(OILS[n], "iodine_value", 0)
                       ELSE 0],
                   DOMAIN oils),
           get_total_oil_weight>>

\* _calculate_saponification_number as the fraction <<num, den>>:
\* sap_sum / total_oil * 1000, where pure_lye is sap_sum in thousandths.
_calculate_saponification_number ==
    IF get_total_oil_weight <= 0 THEN <<0, 1>>
    ELSE <<pure_lye(oils, lye_type), get_total_oil_weight>>

\* The mass of the additives not flagged is_water_replacement.
other_additive_mass ==
    SumOver(additives, DOMAIN additives) - replacement_total

\* A total that counts the additives that do not replace water.
get_batch_properties_with_additives ==
    LET total_oil == get_total_oil_weight
        lye == get_lye_weight
        water == get_water_weight
    IN  [total_oil_weight   |-> Round2(total_oil, 1),
         lye_weight         |-> lye,
         water_weight       |-> water,
         total_batch_weight |-> Round2(total_oil + lye + water
                                         + other_additive_mass, 1),
         lye_percentage     |-> 0,
         water_percentage   |-> 0,
         iodine_value       |-> 0,
         ins_value          |-> 0,
         fa_breakdown       |-> [k \in fa_keys |-> 0]]

get_batch_properties ==
    LET total_oil == get_total_oil_weight
        lye == get_lye_weight
        water == get_water_weight
        iod == _calculate_iodine_value
        sap == _calculate_saponification_number
    IN  [total_oil_weight   |-> Round2(total_oil, 1),
         lye_weight         |-> lye,
         water_weight       |-> water,
         total_batch_weight |-> Round2(total_oil + lye + water, 1),
         lye_percentage     |-> IF total_oil > 0
                                THEN Round2H(lye * 100, total_oil) ELSE 0,
         water_percentage   |-> IF total_oil > 0
                                THEN Round2H(water * 100, total_oil) ELSE 0,
         iodine_value       |-> Round2H(iod[1], iod[2]),
         \* over a positive total both fractions have the same denominator
         ins_value          |-> IF total_oil > 0
                                THEN Round2H(sap[1] - iod[1], total_oil)
                                ELSE Round2H(sap[1] * iod[2] - iod[1] * sap[2],
                                             sap[2] * iod[2]),
         fa_breakdown       |-> [k \in fa_keys |->
                                    IF total_oil > 0
                                    THEN Round2H(fa_totals(oils)[k], total_oil)
                                    ELSE 0]]

-----------------------------------------------------------------------------
(* SoapMath.calculate_qualities *)

\* The keys of final_qualities.
final_keys == quality_keys \cup {"iodine", "ins"}

\* The aggregator recomputing every vector from the fatty acids, stored or
\* not.
quality_term_recomputed(o, n, k) ==
    LET oil_data == Get(OILS, n, <<>>)
        q == _calc_qualities(Get(oil_data, "fa", <<>>), None)
    IN  IF n \notin DOMAIN OILS THEN 0
        ELSE IF k \in quality_keys THEN Get(q, k, 0) * o[n]
        ELSE Get(oil_data, k, 0) * o[n]

\* What one oil adds to final_qualities[k], times the total weight.
quality_term(o, n, k) ==
    LET oil_data == Get(OILS, n, <<>>)
        stored == Get(oil_data, "qualities", <<>>)
        q == IF DOMAIN stored # {} THEN stored
             ELSE _calc_qualities(Get(oil_data, "fa", <<>>), None)
    IN  IF n \notin DOMAIN OILS THEN 0
        ELSE IF k \in quality_keys THEN Get(q, k, 0) * o[n]
        ELSE Get(oil_data, k, 0) * o[n]

\* The sums of final_qualities, times the total weight.
quality_sums(o) ==
    [k \in final_keys |->
        SumOver([n \in DOMAIN o |-> quality_term(o, n, k)], DOMAIN o)]

\* calculate_qualities(oils): {} for a zero total, else each key's value
\* as the fraction <<num, den>>.
calculate_qualities(o) ==
    LET total_weight == SumOver(o, DOMAIN o)
    IN  IF total_weight = 0 THEN <<>>
        ELSE [k \in final_keys |-> <<quality_sums(o)[k], total_weight>>]


-----------------------------------------------------------------------------
(* Inputs drawn for the calls *)

\* "Coconut Oil" is the name the test suite uses; OILS has no such row.
OilNames == {"Coconut Oil, 76 deg", "Olive Oil", "Coconut Oil"}
OilWeights == {-1 * G, 0, 333, 1 * G}

\* "Glitter" is in no table; "Aloe Juice" only once the editor stored it.
AdditiveNames == {"Goat Milk (Liquid)", "Coconut Milk (Liquid)", "Honey",
                  "Glitter", "Aloe Juice"}
AdditiveAmounts == {0, 100}

SuperfatInputs == {-5, 20, 150}
RatioInputs == {1, 90}
LyeTypeInputs == {"NaOH", "KOH", "90% KOH", "LiOH"}
UnitInputs == {"grams", "ounces", "pounds", "stones"}
MethodInputs == {"ratio", "percent", "concentration", "weight"}
ValueInputs == {None, <<0>>, <<38>>, <<200>>}
ScaleTargets == {-500, 0, 20, 2500}

\* Plain records handed to load_recipe_dict: a saved recipe, three records with
\* keys missing and values no setter would store, and the empty record.
LoadRecords ==
    { [oils |-> [n \in {"Coconut Oil, 76 deg", "Olive Oil"} |->
                    IF n = "Olive Oil" THEN 500 ELSE 1 * G],
       superfat_percent |-> 8, water_to_lye_ratio |-> 15,
       lye_type |-> "KOH", unit_system |-> "ounces",
       water_calc_method |-> "percent", water_percent |-> 38,
       lye_concentration |-> 30],
      [oils |-> [n \in {"Coconut Oil, 76 deg", "Olive Oil"} |->
                    IF n = "Olive Oil" THEN -1 * G ELSE 1 * G],
       superfat_percent |-> 150, lye_type |-> "LiOH",
       water_calc_method |-> "weight", lye_concentration |-> 0],
      [oils |-> [n \in {"Olive Oil"} |-> 1 * G],
       water_calc_method |-> "concentration", lye_concentration |-> 100],
      [oils |-> [n \in {"Olive Oil"} |-> 1 * G],
       water_calc_method |-> "concentration", lye_concentration |-> 0],
      <<>> }

-----------------------------------------------------------------------------
(* SoapCalculator mutators; each call is one step *)

Call(c) ==
    /\ ops < MaxOps
    /\ ops' = ops + 1
    /\ last' = c
    /\ UNCHANGED <<OILS, costs, ledger, gummy, recipe_dict, batches>>

add_oil(oil_name, weight) ==
    /\ Call(<<"add_oil", oil_name, weight>>)
    /\ oils' = IF weight > 0 THEN Put(oils, oil_name, weight)
               ELSE IF oil_name \in DOMAIN oils THEN Del(oils, oil_name)
               ELSE oils
    /\ UNCHANGED <<superfat_percent, water_to_lye_ratio, lye_type,
                   total_batch_weight, unit_system, water_calc_method,
                   water_percent, lye_concentration, additives, ADDITIVES>>

remove_oil(oil_name) ==
    /\ Call(<<"remove_oil", oil_name>>)
    /\ oils' = IF oil_name \in DOMAIN oils THEN Del(oils, oil_name) ELSE oils
    /\ UNCHANGED <<superfat_percent, water_to_lye_ratio, lye_type,
                   total_batch_weight, unit_system, water_calc_method,
                   water_percent, lye_concentration, additives, ADDITIVES>>

add_additive(name, amount) ==
    /\ Call(<<"add_additive", name, amount>>)
    /\ additives' = IF amount > 0 THEN Put(additives, name, amount)
                    ELSE IF name \in DOMAIN additives THEN Del(additives, name)
                    ELSE additives
    /\ UNCHANGED <<oils, superfat_percent, water_to_lye_ratio, lye_type,
                   total_batch_weight, unit_system, water_calc_method,
                   water_percent, lye_concentration, ADDITIVES>>

remove_additive(name) ==
    /\ Call(<<"remove_additive", name>>)
    /\ additives' = IF name \in DOMAIN additives THEN Del(additives, name)
                    ELSE additives
    /\ UNCHANGED <<oils, superfat_percent, water_to_lye_ratio, lye_type,
                   total_batch_weight, unit_system, water_calc_method,
                   water_percent, lye_concentration, ADDITIVES>>

\* scale_recipe recording the target before its zero-total return.
scale_recipe_late_return(new_batch_weight) ==
    /\ Call(<<"scale_recipe", new_batch_weight>>)
    /\ total_batch_weight' = new_batch_weight
    /\ oils' = IF get_total_oil_weight = 0 THEN oils
               ELSE [n \in DOMAIN oils |->
                       Round2(oils[n] * new_batch_weight, get_total_oil_weight)]
    /\ UNCHANGED <<superfat_percent, water_to_lye_ratio, lye_type,
                   unit_system, water_calc_method, water_percent,
                   lye_concentration, additives, ADDITIVES>>

\* scale_recipe rounding the new weights to one decimal.
scale_recipe_round1(new_batch_weight) ==
    /\ Call(<<"scale_recipe", new_batch_weight>>)
    /\ LET current_total == get_total_oil_weight
       IN  IF current_total = 0
           THEN UNCHANGED <<oils, total_batch_weight>>
           ELSE /\ oils' = [n \in DOMAIN oils |->
                               100 * RoundHalfEven(oils[n] * new_batch_weight,
                                                   100 * current_total)]
                /\ total_batch_weight' = new_batch_weight
    /\ UNCHANGED <<superfat_percent, water_to_lye_ratio, lye_type,
                   unit_system, water_calc_method, water_percent,
                   lye_concentration, additives, ADDITIVES>>

\* scale_recipe scaling the additives along with the oils.
scale_recipe_with_additives(new_batch_weight) ==
    /\ Call(<<"scale_recipe", new_batch_weight>>)
    /\ LET current_total == get_total_oil_weight
       IN  IF current_total = 0
           THEN UNCHANGED <<oils, total_batch_weight, additives>>
           ELSE /\ oils' = [n \in DOMAIN oils |->
                               Round2(oils[n] * new_batch_weight, current_total)]
                /\ additives' = [n \in DOMAIN additives |->
                               Round2(additives[n] * new_batch_weight,
                                      current_total)]
                /\ total_batch_weight' = new_batch_weight
    /\ UNCHANGED <<superfat_percent, water_to_lye_ratio, lye_type,
                   unit_system, water_calc_method, water_percent,
                   lye_concentration, ADDITIVES>>

scale_recipe(new_batch_weight) ==
    /\ Call(<<"scale_recipe", new_batch_weight>>)
    /\ LET current_total == get_total_oil_weight
       IN  IF current_total = 0
           THEN UNCHANGED <<oils, total_batch_weight>>
           ELSE /\ oils' = [n \in DOMAIN oils |->
                               Round2(oils[n] * new_batch_weight, current_total)]
                /\ total_batch_weight' = new_batch_weight
    /\ UNCHANGED <<superfat_percent, water_to_lye_ratio, lye_type,
                   unit_system, water_calc_method, water_percent,
                   lye_concentration, additives, ADDITIVES>>

set_superfat(percent) ==
    /\ Call(<<"set_superfat", percent>>)
    /\ superfat_percent' = Max(0, Min(100, percent))
    /\ UNCHANGED <<oils, water_to_lye_ratio, lye_type, total_batch_weight,
                   unit_system, water_calc_method, water_percent,
                   lye_concentration, additives, ADDITIVES>>

set_water_ratio(ratio) ==
    /\ Call(<<"set_water_ratio", ratio>>)
    /\ water_to_lye_ratio' = Max(5, Min(50, ratio))
    /\ UNCHANGED <<oils, superfat_percent, lye_type, total_batch_weight,
                   unit_system, water_calc_method, water_percent,
                   lye_concentration, additives, ADDITIVES>>

set_lye_type(lt) ==
    /\ Call(<<"set_lye_type", lt>>)
    /\ lye_type' = IF lt \in {"NaOH", "KOH", "90% KOH"} THEN lt ELSE lye_type
    /\ UNCHANGED <<oils, superfat_percent, water_to_lye_ratio,
                   total_batch_weight, unit_system, water_calc_method,
                   water_percent, lye_concentration, additives, ADDITIVES>>

set_unit_system(unit) ==
    /\ Call(<<"set_unit_system", unit>>)
    /\ unit_system' = IF unit \in {"grams", "ounces", "pounds"} THEN unit
                      ELSE unit_system
    /\ UNCHANGED <<oils, superfat_percent, water_to_lye_ratio, lye_type,
                   total_batch_weight, water_calc_method, water_percent,
                   lye_concentration, additives, ADDITIVES>>

\* set_water_calc_method storing the method before validating it.
set_water_calc_method_unchecked(method, value) ==
    /\ Call(<<"set_water_calc_method", method, value>>)
    /\ water_calc_method' = method
    /\ water_to_lye_ratio' =
          IF value # None /\ method = "ratio"
          THEN Max(5, Min(50, value[1])) ELSE water_to_lye_ratio
    /\ water_percent' =
          IF value # None /\ method = "percent"
          THEN Max(0, Min(100, value[1])) ELSE water_percent
    /\ lye_concentration' =
          IF value # None /\ method = "concentration"
          THEN Max(1, Min(99, value[1])) ELSE lye_concentration
    /\ UNCHANGED <<oils, superfat_percent, lye_type, total_batch_weight,
                   unit_system, additives, ADDITIVES>>

\* set_water_calc_method storing the value as given.
set_water_calc_method_unclamped(method, value) ==
    /\ Call(<<"set_water_calc_method", method, value>>)
    /\ IF method \in {"ratio", "percent", "concentration"}
       THEN /\ water_calc_method' = method
            /\ water_to_lye_ratio' =
                  IF value # None /\ method = "ratio"
                  THEN value[1] ELSE water_to_lye_ratio
            /\ water_percent' =
                  IF value # None /\ method = "percent"
                  THEN value[1] ELSE water_percent
            /\ lye_concentration' =
                  IF value # None /\ method = "concentration"
                  THEN value[1] ELSE lye_concentration
       ELSE UNCHANGED <<water_calc_method, water_to_lye_ratio, water_percent,
                        lye_concentration>>
    /\ UNCHANGED <<oils, superfat_percent, lye_type, total_batch_weight,
                   unit_system, additives, ADDITIVES>>

set_water_calc_method(method, value) ==
    /\ Call(<<"set_water_calc_method", method, value>>)
    /\ IF method \in {"ratio", "percent", "concentration"}
       THEN /\ water_calc_method' = method
            /\ water_to_lye_ratio' =
                  IF value # None /\ method = "ratio"
                  THEN Max(5, Min(50, value[1])) ELSE water_to_lye_ratio
            /\ water_percent' =
                  IF value # None /\ method = "percent"
                  THEN Max(0, Min(100, value[1])) ELSE water_percent
            /\ lye_concentration' =
                  IF value # None /\ method = "concentration"
                  THEN Max(1, Min(99, value[1])) ELSE lye_concentration
       ELSE UNCHANGED <<water_calc_method, water_to_lye_ratio, water_percent,
                        lye_concentration>>
    /\ UNCHANGED <<oils, superfat_percent, lye_type, total_batch_weight,
                   unit_system, additives, ADDITIVES>>

load_recipe_dict(recipe_data) ==
    /\ Call(<<"load_recipe_dict", recipe_data>>)
    /\ oils' = Get(recipe_data, "oils", <<>>)
    /\ superfat_percent' = Get(recipe_data, "superfat_percent", 5)
    /\ water_to_lye_ratio' = Get(recipe_data, "water_to_lye_ratio", 20)
    /\ lye_type' = Get(recipe_data, "lye_type", "NaOH")
    /\ unit_system' = Get(recipe_data, "unit_system", "grams")
    /\ water_calc_method' = Get(recipe_data, "water_calc_method", "ratio")
    /\ water_percent' = Get(recipe_data, "water_percent", 30)
    /\ lye_concentration' = Get(recipe_data, "lye_concentration", 33)
    /\ UNCHANGED <<total_batch_weight, additives, ADDITIVES>>

(* The additive table's editor entry points *)

add_additive_entry(name, info) ==
    /\ Call(<<"add_additive_entry", name, info>>)
    /\ ADDITIVES' = Put(ADDITIVES, name, info)
    /\ UNCHANGED fields

remove_additive_entry(name) ==
    /\ Call(<<"remove_additive_entry", name>>)
    /\ ADDITIVES' = IF name \in DOMAIN ADDITIVES THEN Del(ADDITIVES, name)
                    ELSE ADDITIVES
    /\ UNCHANGED fields

-----------------------------------------------------------------------------
(* Specification *)

\* SoapCalculator.__init__, and the additive and oil tables as their modules
\* define them; an empty cost store; GummyCalculator.__init__.
Init ==
    /\ oils = <<>>
    /\ superfat_percent = 5
    /\ water_to_lye_ratio = 20
    /\ lye_type = "NaOH"
    /\ total_batch_weight = 0
    /\ unit_system = "grams"
    /\ water_calc_method = "ratio"
    /\ water_percent = 30
    /\ lye_concentration = 33
    /\ additives = <<>>
    /\ ADDITIVES = BuiltinADDITIVES
    /\ OILS = BuiltinOILS
    /\ costs = <<>>
    /\ ledger = <<>>
    /\ ingredients = <<>>
    /\ gummy_total_weight = <<0, 1>>
    /\ target_brix = 78
    /\ recipe_dict = <<>>
    /\ batches = <<>>
    /\ ops = 0
    /\ last = <<"__init__">>

AddOil == \E n \in OilNames, w \in OilWeights : add_oil(n, w)
RemoveOil == \E n \in OilNames : remove_oil(n)
AddAdditive == \E n \in AdditiveNames, a \in AdditiveAmounts : add_additive(n, a)
RemoveAdditive == \E n \in AdditiveNames : remove_additive(n)
ScaleRecipe ==
    \E t \in ScaleTargets \cup {get_total_oil_weight} :
        /\ scale_recipe(t)
        /\ \A n \in DOMAIN oils' :
              oils'[n] <= MaxWeight /\ -oils'[n] <= MaxWeight
SetSuperfat == \E p \in SuperfatInputs : set_superfat(p)
SetWaterRatio == \E r \in RatioInputs : set_water_ratio(r)
SetLyeType == \E lt \in LyeTypeInputs : set_lye_type(lt)
SetUnitSystem == \E u \in UnitInputs : set_unit_system(u)
SetWaterCalcMethod ==
    \E m \in MethodInputs, v \in ValueInputs : set_water_calc_method(m, v)
LoadRecipeDict == \E r \in LoadRecords : load_recipe_dict(r)
AddAdditiveEntry ==
    \E n \in CustomAdditiveNames, i \in CustomAdditiveInfos :
        add_additive_entry(n, i)
RemoveAdditiveEntry ==
    \E n \in CustomAdditiveNames : remove_additive_entry(n)

Next ==
    \/ AddOil
    \/ RemoveOil
    \/ AddAdditive
    \/ RemoveAdditive
    \/ ScaleRecipe
    \/ SetSuperfat
    \/ SetWaterRatio
    \/ SetLyeType
    \/ SetUnitSystem
    \/ SetWaterCalcMethod
    \/ LoadRecipeDict
    \/ AddAdditiveEntry
    \/ RemoveAdditiveEntry

Spec == Init /\ [][Next]_vars

\* scale_recipe as the main window calls it: only with a target > 0.
ScaleRecipePositive ==
    \E t \in {x \in ScaleTargets \cup {get_total_oil_weight} : x > 0} :
        /\ scale_recipe(t)
        /\ \A n \in DOMAIN oils' :
              oils'[n] <= MaxWeight /\ -oils'[n] <= MaxWeight

\* Only the calls that edit the two ingredient maps.
NextEdit ==
    \/ AddOil
    \/ RemoveOil
    \/ AddAdditive
    \/ RemoveAdditive
    \/ ScaleRecipePositive

SpecEdit == Init /\ [][NextEdit]_vars

-----------------------------------------------------------------------------
(* Properties *)

Abs(x) == IF x < 0 THEN -x ELSE x

\* r is the weight n/d (d > 0, thousandths) rounded to two decimals: a
\* multiple of 0.01 g no further than 0.005 g from it.
IsRound2(r, n, d) == r % 10 = 0 /\ Abs(r * d - n) <= 5 * d

KnownOils(o) == DOMAIN o \subseteq DOMAIN OILS
PositiveWeights(o) == \A n \in DOMAIN o : o[n] > 0

\* C1: whenever the total oil weight is 0, whatever the superfat, lye type,
\* water method and additives are, the lye weight is 0, the water weight is
\* 0 and all eight entries of the fatty-acid breakdown are 0.
C1_ZeroOilAllZero ==
    get_total_oil_weight = 0 =>
        /\ get_lye_weight = 0
        /\ get_water_weight = 0
        /\ DOMAIN get_batch_properties.fa_breakdown = fa_keys
        /\ \A k \in fa_keys : get_batch_properties.fa_breakdown[k] = 0

\* An empty oil map under a changed lye type and water method, with an
\* additive in the recipe.
C1_Witness ==
    /\ oils = <<>>
    /\ DOMAIN additives # {}
    /\ lye_type # "NaOH"
    /\ water_calc_method # "ratio"

\* C2: for an oil mix of total weight 0 the quality aggregator reports
\* hardness, cleansing, bubbly, creamy and conditioning, each present and 0.
C2_ZeroOilQualitiesZero ==
    get_total_oil_weight = 0 =>
        \A k \in quality_keys :
            /\ k \in DOMAIN calculate_qualities(oils)
            /\ calculate_qualities(oils)[k][1] = 0

\* The SAP value the claim names: sap_koh for KOH and 90% KOH, else sap_naoh.
C3_Sap(n, lt) ==
    IF n \notin DOMAIN OILS THEN 0
    ELSE IF lt \in {"KOH", "90% KOH"} THEN OILS[n].sap_koh
    ELSE OILS[n].sap_naoh

\* The undiscounted, unrounded lye the claim names, as num/den thousandths.
C3_Lye(lt) ==
    <<SumOver([n \in DOMAIN oils |-> oils[n] * C3_Sap(n, lt)], DOMAIN oils)
        * (100 - superfat_percent),
      IF lt = "90% KOH" THEN G * 90 ELSE G * 100>>

\* C3: the lye weight is round(sum(weight * SAP) * (1 - superfat/100), 2)
\* with SAP = sap_koh for KOH and 90% KOH and sap_naoh for NaOH, divided by
\* 0.90 before rounding for 90% KOH; so for known oils and superfat < 100
\* the 90% KOH lye weight is positive and larger than the KOH lye weight.
C3_LyeFormula ==
    (/\ lye_type \in {"NaOH", "KOH", "90% KOH"}
     /\ KnownOils(oils) /\ PositiveWeights(oils) /\ oils # <<>>
     /\ superfat_percent >= 0 /\ superfat_percent < 100) =>
        /\ IsRound2(get_lye_weight, C3_Lye(lye_type)[1], C3_Lye(lye_type)[2])
        /\ (lye_type = "90% KOH" /\ \A n \in DOMAIN oils : oils[n] >= G) =>
              /\ get_lye_weight > 0
              /\ get_lye_weight > lye_weight(oils, superfat_percent, "KOH")

\* The nominal water the claim names, as num/den thousandths, for a
\* percent-of-oils figure pct.
C4_Nominal(pct) ==
    CASE water_calc_method = "percent" ->
            <<get_total_oil_weight * pct, 100>>
      [] water_calc_method = "concentration" ->
            <<get_lye_weight * (100 - lye_concentration), lye_concentration>>
      [] OTHER ->
            <<get_lye_weight * water_to_lye_ratio, 10>>

\* round(max(0, nominal - replacements), 2) for the nominal water w.
C4_After(r, w, replacements) ==
    IsRound2(r, Max(0, w[1] - replacements * w[2]), w[2])

\* C4 as claimed: the water weight is the nominal water of the selected
\* method (ratio: lye * ratio; percent of oils: total_oil * percent / 100;
\* lye concentration: lye * (100 / concentration - 1)) less the mass of the
\* additives flagged is_water_replacement, floored at 0, rounded to 2
\* decimals.  (Read where the lye weight is not 0 and the claimed quotient
\* is defined.)
C4_WaterAsClaimed ==
    (/\ get_lye_weight # 0
     /\ water_calc_method \in {"ratio", "percent", "concentration"}
     /\ water_calc_method = "concentration" => lye_concentration > 0) =>
        C4_After(get_water_weight, C4_Nominal(water_percent),
                 replacement_total)

\* C4 amended: the water weight is 0 when the lye weight is 0; otherwise it
\* is the nominal water of the method (ratio, or any unrecognised method:
\* lye * ratio; percent of oils: total_oil * max(0, percent + the summed
\* water_percent_adjust of the recipe's additives) / 100; lye concentration:
\* lye * (100 / concentration - 1) when 0 < concentration < 100, else 0),
\* and only then less the replacement mass, floored at 0, rounded to 2
\* decimals.
C4_WaterOrder ==
    IF get_lye_weight = 0 THEN get_water_weight = 0
    ELSE IF /\ water_calc_method = "concentration"
            /\ ~(lye_concentration > 0 /\ lye_concentration < 100)
    THEN get_water_weight = 0
    ELSE C4_After(get_water_weight,
                  C4_Nominal(Max(0, water_percent + additive_adjust)),
                  replacement_total)

\* Percent-of-oils water with an adjusting, water-replacing additive in the
\* recipe, and water left after the subtraction.
C4_Witness ==
    /\ get_lye_weight # 0
    /\ water_calc_method = "percent"
    /\ additive_adjust # 0
    /\ replacement_total > 0
    /\ get_water_weight > 0

\* The states and calls C5 is about: a first, positive amount of additive
\* n added to a recipe whose lye weight is not 0, under one of the three
\* water methods.
C5_Adds(n, a) ==
    /\ a > 0
    /\ n \notin DOMAIN additives
    /\ get_lye_weight # 0
    /\ water_calc_method \in {"ratio", "percent", "concentration"}
    /\ add_additive(n, a)

\* What the claim says of the water weight after adding a of an additive,
\* flagged or not, when the nominal water of the method is w.
C5_Effect(n, a, w) ==
    IF additive_info(n, "is_water_replacement", FALSE)
    THEN /\ C4_After(get_water_weight', w, replacement_total + a)
         /\ w[1] - (replacement_total + a) * w[2] >= 0 =>
                get_water_weight' = get_water_weight - a
    ELSE get_water_weight' = get_water_weight

C6_UnknownContributesZero ==
    /\ \A n \in DOMAIN oils \ DOMAIN OILS :
          LET rest == Del(oils, n)
          IN  /\ get_total_oil_weight = total_of(rest) + oils[n]
              /\ \A lt \in LyeTypeInputs :
                    pure_lye(oils, lt) = pure_lye(rest, lt)
              /\ fa_totals(oils) = fa_totals(rest)
              /\ quality_sums(oils) = quality_sums(rest)
    /\ DOMAIN oils \cap DOMAIN OILS = {} =>
          /\ get_lye_weight = 0
          /\ get_water_weight = 0
          /\ get_batch_properties.iodine_value = 0
          /\ \A k \in fa_keys : get_batch_properties.fa_breakdown[k] = 0
          /\ \A k \in DOMAIN calculate_qualities(oils) :
                calculate_qualities(oils)[k][1] = 0
    /\ \A n \in DOMAIN additives \ DOMAIN ADDITIVES :
          /\ replacement_total = replacement_of(Del(additives, n))
          /\ additive_adjust = adjust_of(Del(additives, n))

\* An unknown oil beside a known one, and an unknown additive.
C6_Witness ==
    /\ "Coconut Oil" \in DOMAIN oils
    /\ DOMAIN oils \cap DOMAIN OILS # {}
    /\ "Glitter" \in DOMAIN additives

\* C7: set_lye_type, set_unit_system and set_water_calc_method called with a
\* value outside their enumerations leave every field unchanged; in
\* particular an invalid method changes neither the method nor any of the
\* three water parameters.
C7_InvalidEnumIgnored ==
    [][(\/ \E lt \in LyeTypeInputs \ {"NaOH", "KOH", "90% KOH"} :
              set_lye_type(lt)
        \/ \E u \in UnitInputs \ {"grams", "ounces", "pounds"} :
              set_unit_system(u)
        \/ \E m \in MethodInputs \ {"ratio", "percent", "concentration"},
              v \in ValueInputs :
              set_water_calc_method(m, v))
       => UNCHANGED fields]_vars

\* set_water_calc_method was just called with an invalid method and a value,
\* on a calculator already moved off its defaults.
C7_Witness ==
    /\ last[1] = "set_water_calc_method"
    /\ last[2] = "weight"
    /\ last[3] # None
    /\ water_calc_method = "percent"
    /\ water_percent # 30

\* C8: in every reachable state superfat_percent lies within [0, 100].
C8_SuperfatInRange == superfat_percent >= 0 /\ superfat_percent <= 100

\* C9: every entry of the oil map and of the additive map has a strictly
\* positive weight, after any sequence of add_oil, remove_oil, add_additive,
\* remove_additive and scale_recipe.
C9_PositiveEntries == PositiveWeights(oils) /\ PositiveWeights(additives)

\* What scale_recipe(target) does to the fields according to C10.
C10_Scales(target) ==
    IF get_total_oil_weight = 0 THEN UNCHANGED fields
    ELSE /\ DOMAIN oils' = DOMAIN oils
         /\ \A n \in DOMAIN oils :
               IF get_total_oil_weight > 0
               THEN IsRound2(oils'[n], oils[n] * target, get_total_oil_weight)
               ELSE IsRound2(oils'[n], -oils[n] * target, -get_total_oil_weight)

\* C10 as claimed: scale_recipe(target) replaces every oil weight w by
\* round(w * target / current_total, 2) and keeps the oil names, changes no
\* field when current_total is 0, and scale_recipe(get_total_oil_weight())
\* leaves every oil weight unchanged.
C10_ScaleAsClaimed ==
    [][\A t \in ScaleTargets \cup {get_total_oil_weight} :
          scale_recipe(t) =>
            /\ C10_Scales(t)
            /\ t = get_total_oil_weight => oils' = oils]_vars

\* C10 amended: the same, except that scale_recipe(get_total_oil_weight())
\* replaces every oil weight w by round(w, 2): it leaves the weights that
\* have at most two decimals unchanged.
C10_ScaleRecipe ==
    [][\A t \in ScaleTargets \cup {get_total_oil_weight} :
          scale_recipe(t) =>
            /\ C10_Scales(t)
            /\ t = get_total_oil_weight /\ t # 0 =>
                  \A n \in DOMAIN oils :
                     /\ IsRound2(oils'[n], oils[n], 1)
                     /\ oils[n] % 10 = 0 => oils'[n] = oils[n]]_vars

\* A recipe of two oils was just scaled to a different, non-zero total.
C10_Witness ==
    /\ last[1] = "scale_recipe"
    /\ last[2] = 2500
    /\ Cardinality(DOMAIN oils) >= 2
    /\ total_batch_weight = 2500
    /\ get_total_oil_weight # 0

-----------------------------------------------------------------------------
(* Scaling and superfat *)

\* The step just taken is a call of the method named m.
Called(m) == ops' = ops + 1 /\ last'[1] = m

\* C11: scale_recipe leaves the additive map, superfat, lye type, water
\* method and water parameters unchanged; it rewrites only the oil weights
\* and the recorded target total.
C11_ScaleFrame ==
    [][Called("scale_recipe") =>
          UNCHANGED <<additives, superfat_percent, lye_type,
                      water_calc_method, water_to_lye_ratio, water_percent,
                      lye_concentration, unit_system>>]_vars

\* A recipe holding an additive was just scaled and its oils changed.
C11_Witness ==
    /\ last[1] = "scale_recipe"
    /\ DOMAIN additives # {}
    /\ last[2] > 0
    /\ total_batch_weight = last[2]
    /\ PositiveWeights(oils)
    /\ \E n \in DOMAIN oils : oils[n] % G # 0 /\ oils[n] % 333 # 0

\* The calls C12 is about: a recipe of positive oil weights scaled to the
\* positive target t, that is by the factor k = t / total.
C12_Scaled(t) ==
    /\ oils # <<>>
    /\ PositiveWeights(oils)
    /\ t > 0
    /\ scale_recipe(t)

\* C12 as claimed: for a recipe with positive oil weights, after
\* scale_recipe(k * total) the new total oil weight equals the target
\* exactly and the new lye weight differs from k times the original lye
\* weight by at most 2% of that value.
C12_ScaleAsClaimed ==
    [][\A t \in ScaleTargets \cup {get_total_oil_weight} :
          C12_Scaled(t) =>
            /\ get_total_oil_weight' = t
            /\ 50 * Abs(get_lye_weight' * get_total_oil_weight
                          - t * get_lye_weight)
                  <= t * Abs(get_lye_weight)]_vars

\* C12 amended: for a recipe of n oils with positive weights, SAP values of
\* at most 1 and a superfat within [0, 100], after scale_recipe(k * total)
\* with k > 0 the new total oil weight differs from the target by at most
\* n * 0.005 g and the new lye weight differs from k times the original lye
\* weight by at most (n + 1 + k) * 0.005 g.
C12_ScaleWithinRounding ==
    [][\A t \in ScaleTargets \cup {get_total_oil_weight} :
          (/\ C12_Scaled(t)
           /\ superfat_percent >= 0 /\ superfat_percent <= 100
           /\ \A n \in DOMAIN oils \cap DOMAIN OILS :
                 OILS[n].sap_koh <= G /\ OILS[n].sap_naoh <= G) =>
            LET n == Cardinality(DOMAIN oils)
            IN  /\ Abs(get_total_oil_weight' - t) <= 5 * n
                /\ Abs(get_lye_weight' * get_total_oil_weight
                         - t * get_lye_weight)
                      <= 5 * (n + 1) * get_total_oil_weight + 5 * t]_vars

\* A recipe of known oils was just scaled to 2.5 g and needs lye.
C12_Witness ==
    /\ last = <<"scale_recipe", 2500>>
    /\ PositiveWeights(oils)
    /\ Cardinality(DOMAIN oils \cap DOMAIN OILS) >= 1
    /\ Cardinality(DOMAIN oils) >= 2
    /\ get_total_oil_weight = 2500
    /\ get_lye_weight > 0

\* The steps C13 is about: set_superfat raising the superfat of a recipe of
\* known oils with positive weights, the lye type left as it is.
C13_Raised ==
    /\ Called("set_superfat")
    /\ oils # <<>> /\ KnownOils(oils) /\ PositiveWeights(oils)
    /\ superfat_percent >= 0 /\ superfat_percent <= 100
    /\ superfat_percent' > superfat_percent

\* C13 as claimed: for a fixed non-empty set of known oils and a fixed lye
\* type, the lye weight at a superfat s2 is strictly less than at any
\* s1 < s2 within [0, 100], and at superfat 100 the lye weight is 0.
C13_StrictlyDecreasing ==
    [][C13_Raised =>
          /\ get_lye_weight' < get_lye_weight
          /\ superfat_percent' = 100 => get_lye_weight' = 0]_vars

\* C13 amended: for a fixed non-empty set of known oils with positive
\* weights and a fixed lye type, the lye weight at a superfat s2 is less
\* than or equal to the lye weight at any s1 < s2 within [0, 100] (equal
\* when both round to the same 0.01 g), and at superfat 100 it is 0.
C13_NonIncreasing ==
    [][C13_Raised =>
          /\ get_lye_weight' <= get_lye_weight
          /\ superfat_percent' = 100 => get_lye_weight' = 0]_vars

\* The superfat of a one-oil recipe was just raised from the default to 20
\* and the lye weight dropped.
C13_Witness ==
    /\ last = <<"set_superfat", 20>>
    /\ superfat_percent = 20
    /\ oils # <<>> /\ KnownOils(oils) /\ PositiveWeights(oils)
    /\ get_lye_weight > 0
    /\ get_lye_weight < lye_weight(oils, 5, lye_type)

-----------------------------------------------------------------------------
(* Batch total *)

\* C20 as claimed: the total batch weight reported by get_batch_properties
\* equals total oil weight + lye weight + water weight + the mass of every
\* additive that is not flagged as a water replacement (to 2 decimals).
C20_TotalWithAdditives ==
    IsRound2(get_batch_properties.total_batch_weight,
             get_total_oil_weight + get_lye_weight + get_water_weight
               + other_additive_mass, 1)

\* C20 amended: the total batch weight reported by get_batch_properties
\* equals total oil weight + lye weight + water weight, rounded to 2
\* decimals; it counts the mass of no additive, flagged or not.
C20_TotalOfThree ==
    IsRound2(get_batch_properties.total_batch_weight,
             get_total_oil_weight + get_lye_weight + get_water_weight, 1)

\* A recipe that needs lye and water and holds an additive that replaces no
\* water.
C20_Witness ==
    /\ get_lye_weight > 0
    /\ get_water_weight > 0
    /\ other_additive_mass > 0

-----------------------------------------------------------------------------
(* Plain records: SoapCalculator.get_recipe_dict / load_recipe_dict and
   Recipe.to_dict / Recipe.from_dict *)

\* SoapCalculator(): the fields __init__ assigns.
new_calculator ==
    [oils |-> <<>>, superfat_percent |-> 5, water_to_lye_ratio |-> 20,
     lye_type |-> "NaOH", total_batch_weight |-> 0, unit_system |-> "grams",
     water_calc_method |-> "ratio", water_percent |-> 30,
     lye_concentration |-> 33, additives |-> <<>>]

\* get_recipe_dict of this calculator.
get_recipe_dict ==
    [oils |-> oils, superfat_percent |-> superfat_percent,
     water_to_lye_ratio |-> water_to_lye_ratio, lye_type |-> lye_type,
     unit_system |-> unit_system, water_calc_method |-> water_calc_method,
     water_percent |-> water_percent,
     lye_concentration |-> lye_concentration,
     properties |-> get_batch_properties]

\* The calculator c after c.load_recipe_dict(recipe_data).
loaded(c, recipe_data) ==
    [c EXCEPT
       !.oils = Get(recipe_data, "oils", <<>>),
       !.superfat_percent = Get(recipe_data, "superfat_percent", 5),
       !.water_to_lye_ratio = Get(recipe_data, "water_to_lye_ratio", 20),
       !.lye_type = Get(recipe_data, "lye_type", "NaOH"),
       !.unit_system = Get(recipe_data, "unit_system", "grams"),
       !.water_calc_method = Get(recipe_data, "water_calc_method", "ratio"),
       !.water_percent = Get(recipe_data, "water_percent", 30),
       !.lye_concentration = Get(recipe_data, "lye_concentration", 33)]

\* The Recipe object as MainWindow.save_recipe fills it from the
\* calculator: the attributes of Recipe.__init__ and the ones it adds.
current_recipe ==
    [name |-> "Untitled Recipe", created_date |-> "now",
     modified_date |-> "now", oils |-> oils,
     superfat_percent |-> superfat_percent,
     water_to_lye_ratio |-> water_to_lye_ratio, lye_type |-> lye_type,
     notes |-> "", batch_weight |-> 0,
     additives |-> additives, water_calc_method |-> water_calc_method,
     water_percent |-> water_percent,
     lye_concentration |-> lye_concentration]

\* Recipe.to_dict
to_dict(recipe) ==
    [name |-> recipe.name, created_date |-> recipe.created_date,
     modified_date |-> recipe.modified_date, oils |-> recipe.oils,
     superfat_percent |-> recipe.superfat_percent,
     water_to_lye_ratio |-> recipe.water_to_lye_ratio,
     lye_type |-> recipe.lye_type, notes |-> recipe.notes,
     batch_weight |-> recipe.batch_weight]

\* Recipe.from_dict: the attributes of the Recipe it builds.
from_dict(data) ==
    [name |-> Get(data, "name", "Untitled Recipe"),
     created_date |-> Get(data, "created_date", "now"),
     modified_date |-> Get(data, "modified_date", "now"),
     oils |-> Get(data, "oils", <<>>),
     superfat_percent |-> Get(data, "superfat_percent", 5),
     water_to_lye_ratio |-> Get(data, "water_to_lye_ratio", 20),
     lye_type |-> Get(data, "lye_type", "NaOH"),
     notes |-> Get(data, "notes", ""),
     batch_weight |-> Get(data, "batch_weight", 0)]

\* The record r carries the recipe of this calculator; an attribute r lacks
\* counts with the value a fresh calculator has.
C14_Reproduces(r) ==
    /\ r.oils = oils
    /\ Get(r, "additives", new_calculator.additives) = additives
    /\ r.superfat_percent = superfat_percent
    /\ r.lye_type = lye_type
    /\ Get(r, "water_calc_method", new_calculator.water_calc_method)
          = water_calc_method
    /\ r.water_to_lye_ratio = water_to_lye_ratio
    /\ Get(r, "water_percent", new_calculator.water_percent) = water_percent
    /\ Get(r, "lye_concentration", new_calculator.lye_concentration)
          = lye_concentration

\* C14: converting a recipe to its plain record and loading the record back
\* (get_recipe_dict, then load_recipe_dict into a fresh calculator;
\* Recipe.to_dict, then Recipe.from_dict) reproduces an equal oil map,
\* additive map, superfat, lye type, water method and water parameters.
C14_RoundTrip ==
    /\ C14_Reproduces(loaded(new_calculator, get_recipe_dict))
    /\ C14_Reproduces(from_dict(to_dict(current_recipe)))

\* C15: a fresh calculator, and a calculator that loaded a record with no
\* fields, hold the documented defaults: superfat 5, water:lye ratio 2.0,
\* water percent of oils 38, lye concentration 30, lye type NaOH.
C15_Defaults ==
    (\/ last = <<"__init__">>
     \/ (last[1] = "load_recipe_dict" /\ DOMAIN last[2] = {})) =>
        /\ superfat_percent = 5
        /\ water_to_lye_ratio = 20
        /\ water_percent = 38
        /\ lye_concentration = 30
        /\ lye_type = "NaOH"


(***************************************************************************)
(* Ingredient cost store (src/src/models/cost_manager.py).                 *)
(*                                                                         *)
(* A stored record is [price, quantity, unit]: the price in thousandths of *)
(* a dollar, the quantity in hundredths of the stored unit.  Converted     *)
(* amounts are exact fractions <<num, den>> in lowest terms (den > 0) of   *)
(* a hundredth of the target unit, until the code rounds them.             *)
(***************************************************************************)
RECURSIVE GCD(_, _)
GCD(a, b) == IF b = 0 THEN a ELSE GCD(b, a % b)

Frac(n, d) ==
    LET g == GCD(IF n < 0 THEN -n ELSE n, d)
    IN  <<n \div g, d \div g>>

FracMul(a, b) ==
    LET g1 == GCD(IF a[1] < 0 THEN -a[1] ELSE a[1], b[2])
        g2 == GCD(IF b[1] < 0 THEN -b[1] ELSE b[1], a[2])
    IN  <<(a[1] \div g1) * (b[1] \div g2), (a[2] \div g2) * (b[2] \div g1)>>

FracDiv(a, b) == FracMul(a, <<b[2], b[1]>>)

FracAdd(a, b) ==
    LET g == GCD(a[2], b[2])
    IN  Frac(a[1] * (b[2] \div g) + b[1] * (a[2] \div g),
             a[2] * (b[2] \div g))

FracSub(a, b) == FracAdd(a, <<-b[1], b[2]>>)

\* 28.3495, 453.592, 3785.41 and 29.5735 as fractions in lowest terms.
OunceGrams == <<56699, 2000>>
PoundGrams == <<56699, 125>>
GallonGrams == <<378541, 100>>
FluidOunceGrams == <<59147, 2000>>

\* unit.lower().strip() on the unit strings that occur in the model.
lower_strip(unit) ==
    CASE unit = "Grams " -> "grams"
      [] unit = " OZ" -> "oz"
      [] OTHER -> unit

\* _convert_to_grams that takes any unit it does not know for ounces.
_convert_to_grams_default_ounces(amount, unit) ==
    IF lower_strip(unit) \in {"g", "grams", "gram", "ml", "milliliters"}
    THEN amount
    ELSE FracMul(amount, OunceGrams)

_convert_to_grams(amount, unit) ==
    LET u == lower_strip(unit)
    IN  IF u \in {"g", "grams", "gram"} THEN amount
        ELSE IF u \in {"oz", "ounces", "ounce"}
            THEN FracMul(amount, OunceGrams)
        ELSE IF u \in {"lb", "lbs", "pounds", "pound"}
            THEN FracMul(amount, PoundGrams)
        ELSE IF u \in {"kg", "kilograms", "kilogram"}
            THEN FracMul(amount, <<1000, 1>>)
        ELSE IF u \in {"ml", "milliliters"} THEN amount
        ELSE IF u \in {"l", "liters", "liter"}
            THEN FracMul(amount, <<1000, 1>>)
        ELSE IF u \in {"gal", "gallons", "gallon"}
            THEN FracMul(amount, GallonGrams)
        ELSE IF u \in {"fl oz", "fluid ounces"}
            THEN FracMul(amount, FluidOunceGrams)
        ELSE amount

_convert_from_grams(grams, unit) ==
    LET u == lower_strip(unit)
    IN  IF u \in {"g", "grams", "gram"} THEN grams
        ELSE IF u \in {"oz", "ounces", "ounce"}
            THEN FracDiv(grams, OunceGrams)
        ELSE IF u \in {"lb", "lbs", "pounds", "pound"}
            THEN FracDiv(grams, PoundGrams)
        ELSE IF u \in {"kg", "kilograms", "kilogram"}
            THEN FracDiv(grams, <<1000, 1>>)
        ELSE IF u \in {"ml", "milliliters"} THEN grams
        ELSE IF u \in {"l", "liters", "liter"}
            THEN FracDiv(grams, <<1000, 1>>)
        ELSE IF u \in {"gal", "gallons", "gallon"}
            THEN FracDiv(grams, GallonGrams)
        ELSE IF u \in {"fl oz", "fluid ounces"}
            THEN FracDiv(grams, FluidOunceGrams)
        ELSE grams

\* SoapCalculator.convert_weight and convert_to_grams compare the unit
\* string as given, without lower() or strip().
convert_weight(weight_grams, to_unit) ==
    IF to_unit = "grams" THEN weight_grams
    ELSE IF to_unit = "ounces" THEN FracDiv(weight_grams, OunceGrams)
    ELSE IF to_unit = "pounds" THEN FracDiv(weight_grams, PoundGrams)
    ELSE weight_grams

convert_to_grams(weight, from_unit) ==
    IF from_unit = "grams" THEN weight
    ELSE IF from_unit = "ounces" THEN FracMul(weight, OunceGrams)
    ELSE IF from_unit = "pounds" THEN FracMul(weight, PoundGrams)
    ELSE weight

\* get_cost_per_gram once the record is found: price / grams, in tenths
\* of a dollar per gram.
cost_per_gram(data) ==
    LET price == data.price
        quantity == data.quantity
        unit == data.unit
        grams == _convert_to_grams(<<quantity, 1>>, unit)
    IN  IF quantity <= 0 THEN <<0, 1>>
        ELSE IF grams[1] <= 0 THEN <<0, 1>>
        ELSE Frac(price * grams[2], grams[1])

\* get_cost_per_gram that divides the price by the stored quantity as it
\* is, whatever the unit.
get_cost_per_gram_unconverted(name) ==
    IF name \notin DOMAIN costs THEN <<0, 1>>
    ELSE IF costs[name].quantity <= 0 THEN <<0, 1>>
    ELSE Frac(costs[name].price, costs[name].quantity)

get_cost_per_gram(name) ==
    IF name \notin DOMAIN costs THEN <<0, 1>>
    ELSE cost_per_gram(costs[name])


set_cost(name, price, quantity, unit) ==
    costs' = Put(costs, name,
                 [price |-> price, quantity |-> quantity, unit |-> unit])

\* add_stock that overwrites the record of a tracked ingredient.
add_stock_overwrite(name, price, quantity, unit) ==
    set_cost(name, price, quantity, unit)

add_stock(name, price, quantity, unit) ==
    IF name \notin DOMAIN costs
    THEN set_cost(name, price, quantity, unit)
    ELSE LET current_data == costs[name]
             current_unit == current_data.unit
             current_qty == current_data.quantity
             current_total_value == current_data.price
             current_grams ==
                 _convert_to_grams(<<current_qty, 1>>, current_unit)
             added_grams == _convert_to_grams(<<quantity, 1>>, unit)
             new_grams == FracAdd(current_grams, added_grams)
             new_total_value == current_total_value + price
         IN  costs' = Put(costs, name,
                 [price |-> Round2(new_total_value, 1),
                  quantity |-> RoundHalfEven(new_grams[1], new_grams[2]),
                  unit |-> "grams"])

\* The value deduct_stock returns, in hundredths of a gram: -1.0 for an
\* untracked name.
deduct_stock_result(name, amount_grams) ==
    IF name \notin DOMAIN costs THEN <<-100, 1>>
    ELSE LET data == costs[name]
             deduct_qty == _convert_from_grams(<<amount_grams, 1>>, data.unit)
             diff == FracSub(<<data.quantity, 1>>, deduct_qty)
             new_qty == IF diff[1] < 0 THEN <<0, 1>> ELSE diff
         IN  _convert_to_grams(new_qty, data.unit)

\* deduct_stock without the floor at 0.
deduct_stock_unfloored(name, amount_grams) ==
    IF name \notin DOMAIN costs
    THEN costs' = costs
    ELSE LET data == costs[name]
             deduct_qty == _convert_from_grams(<<amount_grams, 1>>, data.unit)
             new_qty == FracSub(<<data.quantity, 1>>, deduct_qty)
         IN  costs' = Put(costs, name,
                 [data EXCEPT !.quantity =
                      RoundHalfEven(new_qty[1], new_qty[2])])

deduct_stock(name, amount_grams) ==
    IF name \notin DOMAIN costs
    THEN costs' = costs
    ELSE LET data == costs[name]
             current_qty == data.quantity
             unit == data.unit
             deduct_qty == _convert_from_grams(<<amount_grams, 1>>, unit)
             diff == FracSub(<<current_qty, 1>>, deduct_qty)
             new_qty == IF diff[1] < 0 THEN <<0, 1>> ELSE diff
         IN  costs' = Put(costs, name,
                 [data EXCEPT !.quantity =
                      RoundHalfEven(new_qty[1], new_qty[2])])


\* Inputs of the cost store calls.
CostNames == {"Olive Oil", "Honey"}
CostPrices == {4, 10000}
CostQuantities == {0, 250, 10000}
SetQuantities == CostQuantities \cup {-100}
CostUnits == {"oz", "Grams ", "stones"}
DeductAmounts == {0, 1234, 10000}

CostCall(c) ==
    /\ ops < MaxOps
    /\ ops' = ops + 1
    /\ last' = c
    /\ UNCHANGED <<fields, ADDITIVES, OILS, gummy, recipe_dict, batches>>

\* The ledger follows an ingredient from its first add_stock for as long as
\* add_stock is the only call that touches it.
SetCost ==
    \E name \in CostNames, price \in CostPrices,
       quantity \in SetQuantities, unit \in CostUnits :
        /\ CostCall(<<"set_cost", name, price, quantity, unit>>)
        /\ set_cost(name, price, quantity, unit)
        /\ ledger' = Del(ledger, name)

AddStock ==
    \E name \in CostNames, price \in CostPrices,
       quantity \in CostQuantities, unit \in CostUnits :
        /\ CostCall(<<"add_stock", name, price, quantity, unit>>)
        /\ add_stock(name, price, quantity, unit)
        /\ ledger' =
              LET bought == _convert_to_grams(<<quantity, 1>>, unit)
              IN  IF name \notin DOMAIN costs
                  THEN Put(ledger, name,
                           [paid |-> price, grams |-> bought, calls |-> 1,
                            exact |-> price % 10 = 0 /\ bought[2] = 1])
                  ELSE IF name \in DOMAIN ledger
                  THEN Put(ledger, name,
                           [paid |-> ledger[name].paid + price,
                            grams |-> FracAdd(ledger[name].grams, bought),
                            calls |-> ledger[name].calls + 1,
                            exact |-> /\ ledger[name].exact
                                      /\ price % 10 = 0
                                      /\ bought[2] = 1])
                  ELSE ledger

DeductStock ==
    \E name \in CostNames, amount_grams \in DeductAmounts :
        /\ CostCall(<<"deduct_stock", name, amount_grams,
                      deduct_stock_result(name, amount_grams)>>)
        /\ deduct_stock(name, amount_grams)
        /\ ledger' = Del(ledger, name)

NextCost ==
    \/ SetCost
    \/ AddStock
    \/ DeductStock

SpecCost == Init /\ [][NextCost]_vars


-----------------------------------------------------------------------------
(* Cost store properties *)

\* The quantity of a stored record, converted to grams.
stored_grams(data) == _convert_to_grams(<<data.quantity, 1>>, data.unit)

\* The integer r is the fraction f rounded to the nearest whole number.
IsNearest(r, f) == 2 * Abs(r * f[2] - f[1]) <= f[2]

\* What add_stock(name, price, quantity, unit) adds up before it stores.
C16_SumPrice(name, price) == costs[name].price + price
C16_SumGrams(name, quantity, unit) ==
    FracAdd(stored_grams(costs[name]), _convert_to_grams(<<quantity, 1>>, unit))

\* The step of C16 as stated: on an untracked name add_stock stores the
\* arguments as set_cost does, on a tracked name it stores the exact sums.
C16_StoresSums ==
    LET name == last'[2]
        price == last'[3]
        quantity == last'[4]
        unit == last'[5]
    IN  IF name \notin DOMAIN costs
        THEN costs'[name] =
                 [price |-> price, quantity |-> quantity, unit |-> unit]
        ELSE /\ costs'[name].price = C16_SumPrice(name, price)
             /\ <<costs'[name].quantity, 1>> =
                    C16_SumGrams(name, quantity, unit)
             /\ costs'[name].unit = "grams"

\* The step as the code performs it: both sums are rounded to two decimals.
C16_StoresRoundedSums ==
    LET name == last'[2]
        price == last'[3]
        quantity == last'[4]
        unit == last'[5]
    IN  IF name \notin DOMAIN costs
        THEN costs'[name] =
                 [price |-> price, quantity |-> quantity, unit |-> unit]
        ELSE /\ costs'[name].price % 10 = 0
             /\ Abs(costs'[name].price - C16_SumPrice(name, price)) <= 5
             /\ IsNearest(costs'[name].quantity,
                          C16_SumGrams(name, quantity, unit))
             /\ costs'[name].unit = "grams"

\* price / grams as get_cost_per_gram reports it, 0 without grams.
C16_Ratio(price, grams) ==
    IF grams[1] <= 0 THEN <<0, 1>> ELSE Frac(price * grams[2], grams[1])

\* Every purchase of the ledger was a whole cent for a whole hundredth of
\* a gram, so no sum had anything to round.
C16_NothingToRound(entry) == entry.exact

\* After add_stock calls starting from untracked, the cost per gram in the
\* store c is (sum of prices paid) / (sum of quantities in grams) of the
\* ledger l.
C16_CostIsPaidOverBought(c, l) ==
    \A name \in DOMAIN l :
        /\ name \in DOMAIN c
        /\ cost_per_gram(c[name]) = C16_Ratio(l[name].paid, l[name].grams)

\* C16 (as stated): add_stock on an untracked ingredient stores what
\* set_cost would store; on a tracked one it stores price = old price + p,
\* quantity = grams(old quantity, old unit) + grams(q, u), unit = grams;
\* hence after add_stock calls starting from untracked the cost per gram is
\* (sum of prices paid) / (sum of quantities in grams).
C16_AddStockExact ==
    [][/\ Called("add_stock") => C16_StoresSums
       /\ C16_CostIsPaidOverBought(costs', ledger')]_vars

\* After add_stock calls starting from untracked: the cost per gram is
\* stored price / stored grams, the stored price and grams are within
\* 0.005 per rounding call of the sums paid and bought, and equal to them
\* when no call had anything to round.
C16_CostIsStoredRatio(c, l) ==
    \A name \in DOMAIN l :
        LET entry == l[name]
            grams == stored_grams(c[name])
            roundings == entry.calls - 1
        IN  /\ name \in DOMAIN c
            /\ cost_per_gram(c[name]) = C16_Ratio(c[name].price, grams)
            /\ Abs(c[name].price - entry.paid) <= 5 * roundings
            /\ 2 * Abs(grams[1] * entry.grams[2] - entry.grams[1] * grams[2])
                   <= roundings * grams[2] * entry.grams[2]
            /\ C16_NothingToRound(entry) =>
                   cost_per_gram(c[name]) = C16_Ratio(entry.paid, entry.grams)

\* C16 (amended): on a tracked ingredient add_stock stores both sums
\* rounded to two decimals, unit = grams; hence after add_stock calls
\* starting from untracked the cost per gram is (sum of prices paid) /
\* (sum of grams bought) up to that rounding.
C16_AddStockRounded ==
    [][/\ Called("add_stock") => C16_StoresRoundedSums
       /\ C16_CostIsStoredRatio(costs', ledger')]_vars

\* A second purchase whose grams had to be rounded.
C16_Witness ==
    /\ last[1] = "add_stock"
    /\ last[2] \in DOMAIN ledger
    /\ ledger[last[2]].calls = 2
    /\ costs[last[2]].unit = "grams"
    /\ <<costs[last[2]].quantity, 1>> # ledger[last[2]].grams
    /\ get_cost_per_gram(last[2])[1] > 0


\* C17: get_cost_per_gram(name) is 0 when the ingredient is untracked or
\* its stored quantity is <= 0, and otherwise the stored price divided by
\* the stored quantity converted to grams, which is then positive.
C17_CostPerGram ==
    \A name \in CostNames :
        IF name \notin DOMAIN costs THEN get_cost_per_gram(name) = <<0, 1>>
        ELSE IF costs[name].quantity <= 0
            THEN get_cost_per_gram(name) = <<0, 1>>
        ELSE LET grams == stored_grams(costs[name])
             IN  /\ grams[1] > 0
                 /\ get_cost_per_gram(name) =
                        Frac(costs[name].price * grams[2], grams[1])

\* One ingredient untracked, and one with a price whose stock a deduction
\* has just emptied.
C17_Witness ==
    /\ "Honey" \notin DOMAIN costs
    /\ "Olive Oil" \in DOMAIN costs
    /\ costs["Olive Oil"].quantity = 0
    /\ costs["Olive Oil"].price > 0
    /\ last[1] = "deduct_stock"
    /\ last[3] > 0


\* max(0, quantity - amount_grams converted to the stored unit), in
\* hundredths of the stored unit.
C18_Remaining(name, amount_grams) ==
    LET deducted == _convert_from_grams(<<amount_grams, 1>>, costs[name].unit)
        diff == FracSub(<<costs[name].quantity, 1>>, deducted)
    IN  IF diff[1] < 0 THEN <<0, 1>> ELSE diff

\* A deduct_stock step changes nothing but the quantity of its ingredient.
C18_Frame(name) ==
    /\ DOMAIN costs' = DOMAIN costs
    /\ \A n \in DOMAIN costs \ {name} : costs'[n] = costs[n]
    /\ costs'[name].price = costs[name].price
    /\ costs'[name].unit = costs[name].unit

\* C18 (as stated): deduct_stock on a tracked ingredient stores max(0,
\* quantity - amount in the stored unit) and returns the remaining quantity
\* in grams, never negative; on an untracked one it returns -1 and leaves
\* the store unchanged.
C18_StoresRemaining ==
    [][Called("deduct_stock") =>
        LET name == last'[2]
            amount_grams == last'[3]
            returned == last'[4]
        IN  IF name \in DOMAIN costs
            THEN /\ C18_Frame(name)
                 /\ <<costs'[name].quantity, 1>> =
                        C18_Remaining(name, amount_grams)
                 /\ returned = _convert_to_grams(
                        C18_Remaining(name, amount_grams), costs[name].unit)
                 /\ returned[1] >= 0
            ELSE returned = <<-100, 1>> /\ costs' = costs]_vars

\* C18 (amended): the stored quantity is that remainder rounded to two
\* decimals; the value returned is the remainder before the rounding,
\* converted to grams.
C18_StoresRoundedRemaining ==
    [][Called("deduct_stock") =>
        LET name == last'[2]
            amount_grams == last'[3]
            returned == last'[4]
        IN  IF name \in DOMAIN costs
            THEN /\ C18_Frame(name)
                 /\ IsNearest(costs'[name].quantity,
                              C18_Remaining(name, amount_grams))
                 /\ costs'[name].quantity >= 0
                 /\ returned = _convert_to_grams(
                        C18_Remaining(name, amount_grams), costs[name].unit)
                 /\ returned[1] >= 0
            ELSE returned = <<-100, 1>> /\ costs' = costs]_vars

\* A deduction from a stock kept in ounces that left a remainder the store
\* had to round, next to an ingredient that was never tracked.
C18_Witness ==
    /\ last[1] = "deduct_stock"
    /\ last[2] \in DOMAIN costs
    /\ lower_strip(costs[last[2]].unit) = "oz"
    /\ costs[last[2]].quantity > 0
    /\ last[4] # stored_grams(costs[last[2]])
    /\ DOMAIN costs # CostNames


\* The unit strings the two classes recognise, as their documentation and
\* unit tables list them.
C19_CostManagerUnits ==
    {"g", "grams", "gram", "oz", "ounces", "ounce", "lb", "lbs", "pounds",
     "pound", "kg", "kilograms", "kilogram", "ml", "milliliters", "l",
     "liters", "liter", "gal", "gallons", "gallon", "fl oz", "fluid ounces"}
C19_CalculatorUnits == {"grams", "ounces", "pounds"}

\* Unit strings and amounts to convert: the inputs of the calls, and the
\* units and quantities in the store.
C19_Units ==
    UnitInputs \cup CostUnits \cup {"oz", "lbs", "cups", ""}
        \cup {costs[n].unit : n \in DOMAIN costs}
C19_Amounts ==
    {<<w, 1>> : w \in SetQuantities \cup DeductAmounts}
        \cup {<<costs[n].quantity, 1>> : n \in DOMAIN costs}
        \cup (IF last[1] = "deduct_stock" THEN {last[4]} ELSE {})

\* C19: each of the four unit-conversion functions returns its numeric
\* input unchanged when given a unit string it does not recognise.
C19_UnknownUnitPassthrough ==
    \A unit \in C19_Units, amount \in C19_Amounts :
        /\ lower_strip(unit) \notin C19_CostManagerUnits =>
              /\ _convert_to_grams(amount, unit) = amount
              /\ _convert_from_grams(amount, unit) = amount
        /\ unit \notin C19_CalculatorUnits =>
              /\ convert_weight(amount, unit) = amount
              /\ convert_to_grams(amount, unit) = amount

\* A stock kept in a unit the cost manager does not know, after a deduction
\* that was taken from it gram for unit.
C19_Witness ==
    /\ last[1] = "deduct_stock"
    /\ last[2] \in DOMAIN costs
    /\ costs[last[2]].unit = "stones"
    /\ last[3] > 0
    /\ costs[last[2]].quantity > 0
    /\ last[4] = <<costs[last[2]].quantity, 1>>
    /\ get_cost_per_gram(last[2]) =
           Frac(costs[last[2]].price, costs[last[2]].quantity)


-----------------------------------------------------------------------------
(* Iodine, INS and qualities *)

\* The blend the claim names, as the fraction <<num, den>>: the sum of
\* (oil weight / total oil weight) * the iodine value of the oil's row.
C21_Blend ==
    <<SumOver([n \in DOMAIN oils |-> oils[n] * Get(Get(OILS, n, <<>>),
                                                   "iodine", 0)],
              DOMAIN oils),
      get_total_oil_weight>>

\* C21: the iodine value reported for a recipe is the weight-ratio blend of
\* the iodine values of the table, so a recipe of a single table oil
\* reports that oil's iodine value, and the INS reported is the
\* saponification number minus that iodine value.
C21_IodineBlend ==
    (oils # <<>> /\ PositiveWeights(oils) /\ lye_type \in {"NaOH", "KOH"}) =>
        LET reported == get_batch_properties
            sap == _calculate_saponification_number
        IN  /\ reported.iodine_value = Round2H(C21_Blend[1], C21_Blend[2])
            /\ \A n \in DOMAIN OILS :
                  DOMAIN oils = {n} =>
                      reported.iodine_value = 100 * OILS[n].iodine
            /\ reported.ins_value =
                   Round2H(sap[1] - C21_Blend[1], get_total_oil_weight)


(* The oil table's editor entry points (src/src/data/oils.py) *)

OilCall(c) ==
    /\ ops < MaxOps
    /\ ops' = ops + 1
    /\ last' = c
    /\ UNCHANGED <<fields, ADDITIVES, costs, ledger, gummy, recipe_dict,
                   batches>>

save_custom_oil(name, data) ==
    /\ OilCall(<<"save_custom_oil", name, data>>)
    /\ OILS' = Put(OILS, name, data)

delete_custom_oil(name) ==
    /\ OilCall(<<"delete_custom_oil", name>>)
    /\ OILS' = IF name \in DOMAIN OILS THEN Del(OILS, name) ELSE OILS

\* Rows a custom_oils.json can hold: as the editor writes them (qualities
\* computed from the fatty acids), with a quality vector of its own, with
\* none, and with an empty one.
CastorFA == [ricinoleic |-> 90, oleic |-> 4, linoleic |-> 4, stearic |-> 1]
CustomOilRows ==
    { [sap_koh |-> 180, sap_naoh |-> 128, iodine |-> 86, ins |-> 95,
       fa |-> CastorFA, qualities |-> _calc_qualities(CastorFA, None)],
      [sap_koh |-> 180, sap_naoh |-> 128, iodine |-> 86, ins |-> 95,
       fa |-> CastorFA,
       qualities |-> [hardness |-> 40, cleansing |-> 7, bubbly |-> 50,
                      creamy |-> 60, conditioning |-> 70]],
      [sap_koh |-> 180, sap_naoh |-> 128, iodine |-> 86, ins |-> 95,
       fa |-> CastorFA],
      [sap_koh |-> 180, sap_naoh |-> 128, fa |-> CastorFA,
       qualities |-> <<>>] }
CustomOilNames == {"Castor Blend"}
DeletedOilNames == {"Castor Blend", "Olive Oil"}
BlendNames == {"Coconut Oil, fractionated", "Olive Oil", "Castor Blend",
               "Mystery Oil"}

SaveCustomOil ==
    \E n \in CustomOilNames, row \in CustomOilRows : save_custom_oil(n, row)
DeleteCustomOil == \E n \in DeletedOilNames : delete_custom_oil(n)
AddBlendOil == \E n \in BlendNames, w \in OilWeights : add_oil(n, w)

NextOils ==
    \/ SaveCustomOil
    \/ DeleteCustomOil
    \/ AddBlendOil

SpecOils == Init /\ [][NextOils]_vars

\* The quality vector the claim gives an oil row: the stored one when the
\* row has one, else the five sums over its fatty acids.
C22_Vector(row) ==
    LET fa == Get(row, "fa", <<>>)
        lauric == Get(fa, "lauric", 0)
        myristic == Get(fa, "myristic", 0)
        palmitic == Get(fa, "palmitic", 0)
        stearic == Get(fa, "stearic", 0)
        oleic == Get(fa, "oleic", 0)
        linoleic == Get(fa, "linoleic", 0)
        linolenic == Get(fa, "linolenic", 0)
        ricinoleic == Get(fa, "ricinoleic", 0)
    IN  IF DOMAIN Get(row, "qualities", <<>>) # {} THEN row.qualities
        ELSE [hardness |-> lauric + myristic + palmitic + stearic,
              cleansing |-> lauric + myristic,
              bubbly |-> lauric + myristic + ricinoleic,
              creamy |-> palmitic + stearic + ricinoleic,
              conditioning |-> ricinoleic + oleic + linoleic + linolenic]

\* C22: each final quality is the sum over the oils of the table of
\* quality[k] * (w / T), T the total of all oils in the mix, where the
\* quality vector of an oil is the stored one when its row stores one and
\* is otherwise derived from the row's fatty acids.
C22_QualityBlend ==
    get_total_oil_weight # 0 =>
        \A k \in quality_keys :
            calculate_qualities(oils)[k] =
                <<SumOver([n \in DOMAIN oils |->
                              IF n \in DOMAIN OILS
                              THEN Get(C22_Vector(OILS[n]), k, 0) * oils[n]
                              ELSE 0],
                          DOMAIN oils),
                  get_total_oil_weight>>

\* A mix of an oil with a stored vector that its fatty acids would not
\* give, and a custom oil whose row stores no vector.
C22_Witness ==
    /\ {"Coconut Oil, fractionated", "Castor Blend"} \subseteq DOMAIN oils
    /\ "Castor Blend" \in DOMAIN OILS
    /\ "qualities" \notin DOMAIN OILS["Castor Blend"]
    /\ OILS["Coconut Oil, fractionated"].qualities #
           _calc_qualities(OILS["Coconut Oil, fractionated"].fa, None)
    /\ calculate_qualities(oils)["bubbly"][1] > 0


-----------------------------------------------------------------------------
(* The recipes of the test suite (src/tests/test_calculator.py) *)

\* The oils test_calculator adds, and the Recipe of test_recipe as the main
\* window hands it to load_recipe_dict.
TestOilNames == {"Coconut Oil", "Olive Oil", "Palm Oil"}
TestOilWeights == {200 * G, 300 * G, 500 * G}
TestRecipe ==
    [oils |-> [n \in {"Coconut Oil", "Olive Oil"} |->
                  IF n = "Coconut Oil" THEN 200 * G ELSE 300 * G],
     superfat_percent |-> 5, water_to_lye_ratio |-> 20, lye_type |-> "NaOH"]

AddTestOil == \E n \in TestOilNames, w \in TestOilWeights : add_oil(n, w)
LoadTestRecipe == load_recipe_dict(TestRecipe)
SetTestSuperfat == \E p \in {0, 5} : set_superfat(p)
SetTestWater ==
    \E m \in {"ratio", "percent"}, v \in {None, <<38>>} :
        set_water_calc_method(m, v)

NextTest ==
    \/ AddTestOil
    \/ LoadTestRecipe
    \/ SetTestSuperfat
    \/ SetTestWater

SpecTest == Init /\ [][NextTest]_vars

\* The SAP values the claim multiplies by, in thousandths.
C23_Sap ==
    [n \in TestOilNames |->
        CASE n = "Coconut Oil" -> 183
          [] n = "Palm Oil" -> 141
          [] n = "Olive Oil" -> 134]

C23_Scenario ==
    /\ oils = [n \in TestOilNames |->
                  CASE n = "Coconut Oil" -> 200 * G
                    [] n = "Palm Oil" -> 500 * G
                    [] n = "Olive Oil" -> 300 * G]
    /\ superfat_percent = 5
    /\ lye_type = "NaOH"
    /\ water_calc_method = "percent"
    /\ water_percent = 38

\* C23: for oils Coconut Oil 200 g, Palm Oil 500 g, Olive Oil 300 g,
\* superfat 5, NaOH and percent-of-oils 38, the total is 1000 g, the lye is
\* (200 * 0.183 + 500 * 0.141 + 300 * 0.134) * 0.95 rounded to 2 decimals
\* and positive, and the water is 380.00 g.
C23_EndToEnd ==
    C23_Scenario =>
        /\ get_total_oil_weight = 1000 * G
        /\ get_lye_weight =
               10 * RoundProduct(
                        SumOver([n \in TestOilNames |-> oils[n] * C23_Sap[n]],
                                TestOilNames),
                        100 - 5, 10 * G * 100)
        /\ get_lye_weight > 0
        /\ get_water_weight = 380 * G

\* What the code gives in that state.
C23_Observed ==
    C23_Scenario =>
        /\ get_total_oil_weight = 1000 * G
        /\ get_lye_weight = 105920
        /\ get_water_weight = 380 * G


\* C24: for every oil of the reference table, and for the name
\* "Coconut Oil" the test suite asks for, get_oil_sap(name, "KOH") >
\* get_oil_sap(name, "NaOH") > 0.
C24_SapOrder ==
    \A name \in DOMAIN BuiltinOILS \cup {"Coconut Oil"} :
        /\ get_oil_sap(name, "KOH") > get_oil_sap(name, "NaOH")
        /\ get_oil_sap(name, "NaOH") > 0

\* The rows of the table alone are in that order.
C24_TableSapOrder ==
    \A name \in DOMAIN BuiltinOILS :
        /\ get_oil_sap(name, "KOH") > get_oil_sap(name, "NaOH")
        /\ get_oil_sap(name, "NaOH") > 0


-----------------------------------------------------------------------------
(* GummyCalculator (src/src/models/gummy_calculator.py).                    *)
(* Weights are exact fractions <<num, den>> of a gram in lowest terms       *)
(* (den > 0), since scale_recipe multiplies them without rounding; solids   *)
(* and the target Brix are whole percentages.                               *)

\* Five rows of GUMMY_INGREDIENTS: the "solids" percentage.
GUMMY_INGREDIENTS ==
    [n \in {"Gelatin (250 Bloom)", "Sugar (Sucrose)", "Corn Syrup (43 DE)",
            "Water", "Fruit Juice"} |->
        CASE n = "Gelatin (250 Bloom)" -> [solids |-> 88]
          [] n = "Sugar (Sucrose)" -> [solids |-> 100]
          [] n = "Corn Syrup (43 DE)" -> [solids |-> 80]
          [] n = "Water" -> [solids |-> 0]
          [] n = "Fruit Juice" -> [solids |-> 12]]

\* sum(f.values()) for fractions
RECURSIVE FracSum(_, _)
FracSum(f, S) ==
    IF S = {} THEN <<0, 1>>
    ELSE LET x == CHOOSE y \in S : TRUE
         IN  FracAdd(f[x], FracSum(f, S \ {x}))

_calculate_totals(ing) == FracSum(ing, DOMAIN ing)

calculate_total_solids ==
    FracSum([name \in DOMAIN ingredients |->
                FracMul(ingredients[name],
                        Frac(Get(Get(GUMMY_INGREDIENTS, name, <<>>),
                                 "solids", 0), 100))],
            DOMAIN ingredients)

calculate_estimated_yield ==
    IF target_brix <= 0 THEN <<0, 1>>
    ELSE FracDiv(calculate_total_solids, Frac(target_brix, 100))

calculate_water_to_remove ==
    LET current_weight == gummy_total_weight
        target_weight == calculate_estimated_yield
        diff == FracSub(current_weight, target_weight)
    IN  IF diff[1] < 0 THEN <<0, 1>> ELSE diff

GummyCall(c) ==
    /\ ops < MaxOps
    /\ ops' = ops + 1
    /\ last' = c
    /\ UNCHANGED <<fields, ADDITIVES, OILS, costs, ledger, recipe_dict,
                   batches>>

add_ingredient(name, weight) ==
    /\ GummyCall(<<"add_ingredient", name, weight>>)
    /\ ingredients' =
          IF weight[1] > 0 THEN Put(ingredients, name, weight)
          ELSE IF name \in DOMAIN ingredients THEN Del(ingredients, name)
          ELSE ingredients
    /\ gummy_total_weight' = _calculate_totals(ingredients')
    /\ UNCHANGED target_brix

remove_ingredient(name) ==
    /\ GummyCall(<<"remove_ingredient", name>>)
    /\ ingredients' = IF name \in DOMAIN ingredients
                      THEN Del(ingredients, name) ELSE ingredients
    /\ gummy_total_weight' = _calculate_totals(ingredients')
    /\ UNCHANGED target_brix

\* GummyCalculator.scale_recipe leaving total_weight as it was.
gummy_scale_recipe_stale_total(new_total_weight) ==
    /\ GummyCall(<<"scale_recipe", new_total_weight>>)
    /\ ingredients' =
          IF gummy_total_weight[1] <= 0 THEN ingredients
          ELSE [name \in DOMAIN ingredients |->
                   FracMul(ingredients[name],
                           FracDiv(new_total_weight, gummy_total_weight))]
    /\ UNCHANGED <<gummy_total_weight, target_brix>>

\* GummyCalculator.scale_recipe
gummy_scale_recipe(new_total_weight) ==
    /\ GummyCall(<<"scale_recipe", new_total_weight>>)
    /\ IF gummy_total_weight[1] <= 0
       THEN UNCHANGED <<ingredients, gummy_total_weight>>
       ELSE LET factor == FracDiv(new_total_weight, gummy_total_weight)
            IN  /\ ingredients' =
                      [name \in DOMAIN ingredients |->
                          FracMul(ingredients[name], factor)]
                /\ gummy_total_weight' = _calculate_totals(ingredients')
    /\ UNCHANGED target_brix

\* GummyCalculator.load_recipe_dict
gummy_load_recipe_dict(data) ==
    /\ GummyCall(<<"load_recipe_dict", data>>)
    /\ ingredients' = Get(data, "ingredients", <<>>)
    /\ target_brix' = Get(data, "target_brix", 78)
    /\ gummy_total_weight' = _calculate_totals(ingredients')

\* Inputs of the calls.  "Sprinkles" is not a row of GUMMY_INGREDIENTS.
GummyNames == {"Sugar (Sucrose)", "Corn Syrup (43 DE)", "Water", "Sprinkles"}
GummyWeights == {<<-10, 1>>, <<0, 1>>, <<50, 1>>, <<100, 1>>}
GummyTargets == {<<0, 1>>, <<7, 1>>, <<500, 1>>}
GummyRecords ==
    { [ingredients |-> [n \in {"Sugar (Sucrose)", "Water"} |-> <<100, 1>>],
       target_brix |-> 80],
      [ingredients |-> [n \in {"Corn Syrup (43 DE)"} |-> <<125, 1>>],
       target_brix |-> 0],
      [ingredients |-> [n \in {"Sugar (Sucrose)", "Water"} |->
                           IF n = "Water" THEN <<-150, 1>> ELSE <<100, 1>>],
       target_brix |-> -50],
      <<>> }

AddIngredient ==
    \E n \in GummyNames, w \in GummyWeights : add_ingredient(n, w)
RemoveIngredient == \E n \in GummyNames : remove_ingredient(n)
GummyScaleRecipe == \E t \in GummyTargets : gummy_scale_recipe(t)
GummyLoadRecipeDict == \E r \in GummyRecords : gummy_load_recipe_dict(r)

NextGummy ==
    \/ AddIngredient
    \/ RemoveIngredient
    \/ GummyScaleRecipe
    \/ GummyLoadRecipeDict

SpecGummy == Init /\ [][NextGummy]_vars


\* The sum of the current ingredient weights.
C25_Sum == FracSum(ingredients, DOMAIN ingredients)

C25_Max0(f) == IF f[1] < 0 THEN <<0, 1>> ELSE f

\* total_solids / (target_brix / 100), for a target Brix other than 0.
C25_Quotient ==
    FracMul(calculate_total_solids,
            Frac(IF target_brix < 0 THEN -100 ELSE 100,
                 IF target_brix < 0 THEN -target_brix ELSE target_brix))

\* C25 as stated: in every state the gummy operations reach, the water to
\* remove is max(0, sum of the ingredient weights - total_solids /
\* (target_brix / 100)) and is not negative.  (A target Brix of 0, where the
\* quotient has no value, is left out.)
C25_WaterToRemoveAnyBrix ==
    target_brix # 0 =>
        /\ calculate_water_to_remove = C25_Max0(FracSub(C25_Sum, C25_Quotient))
        /\ calculate_water_to_remove[1] >= 0

\* C25 amended: in every state the gummy operations reach, the water to remove
\* is max(0, sum of the ingredient weights - estimated yield), where the
\* estimated yield is total_solids / (target_brix / 100) when the target Brix
\* is positive and 0 otherwise; the result is never negative.
C25_WaterToRemove ==
    /\ calculate_water_to_remove =
          C25_Max0(FracSub(C25_Sum,
                           IF target_brix > 0 THEN C25_Quotient ELSE <<0, 1>>))
    /\ calculate_water_to_remove[1] >= 0

\* A recipe loaded with a target Brix that is not positive and then scaled:
\* all of its new weight is water to remove.
C25_Witness ==
    /\ last[1] = "scale_recipe"
    /\ target_brix <= 0
    /\ ingredients # <<>>
    /\ C25_Sum = last[2]
    /\ calculate_water_to_remove = last[2]
    /\ calculate_water_to_remove[1] > 0


-----------------------------------------------------------------------------
(* The water methods' parameters *)

C26_OutOfRange == lye_concentration <= 0 \/ lye_concentration >= 100

\* C26: in every state the calculator reaches, if the water method is the lye
\* concentration and the stored concentration is at most 0 or at least 100,
\* get_water_weight() is 0.
C26_ConcentrationOutOfRange ==
    (water_calc_method = "concentration" /\ C26_OutOfRange)
        => get_water_weight = 0

\* A loaded recipe that needs lye, under the concentration method with a
\* stored concentration of 0.
C26_Witness ==
    /\ last[1] = "load_recipe_dict"
    /\ water_calc_method = "concentration"
    /\ lye_concentration = 0
    /\ get_lye_weight > 0
    /\ get_water_weight = 0


-----------------------------------------------------------------------------
(* The queries of SoapCalculator, and a caller that edits the record        *)
(* get_recipe_dict returned.  A dict a caller holds is its items and        *)
(* whether it is the very object self.oils.                                 *)

\* A reference to self.oils itself.
oils_reference(d) == [items |-> d, is_self_oils |-> TRUE]

\* self.oils.copy()
oils_copy(d) == [items |-> d, is_self_oils |-> FALSE]

QueryNames == {"get_total_oil_weight", "get_lye_weight", "get_water_weight",
               "get_batch_properties"}

query_result(q) ==
    CASE q = "get_total_oil_weight" -> get_total_oil_weight
      [] q = "get_lye_weight" -> get_lye_weight
      [] q = "get_water_weight" -> get_water_weight
      [] q = "get_batch_properties" -> get_batch_properties

QueryCall(c) ==
    /\ ops < MaxOps
    /\ ops' = ops + 1
    /\ last' = c
    /\ UNCHANGED <<OILS, ADDITIVES, costs, ledger, gummy, batches>>

Query ==
    \E q \in QueryNames :
        /\ QueryCall(<<q, query_result(q)>>)
        /\ UNCHANGED <<fields, recipe_dict>>

GetRecipeDict ==
    /\ QueryCall(<<"get_recipe_dict", get_recipe_dict>>)
    /\ recipe_dict' = [get_recipe_dict EXCEPT !.oils = oils_copy(oils)]
    /\ UNCHANGED fields

\* recipe_dict["oils"][n] = w, by the caller that holds the record.
EditReturnedOils ==
    \E n \in OilNames, w \in {0, 1 * G} :
        /\ recipe_dict # <<>>
        /\ QueryCall(<<"edit returned oils", n, w>>)
        /\ recipe_dict' = [recipe_dict EXCEPT !.oils.items = Put(@, n, w)]
        /\ oils' = IF recipe_dict.oils.is_self_oils
                   THEN Put(recipe_dict.oils.items, n, w) ELSE oils
        /\ UNCHANGED <<superfat_percent, water_to_lye_ratio, lye_type,
                       total_batch_weight, unit_system, water_calc_method,
                       water_percent, lye_concentration, additives>>

NextQuery ==
    \/ AddOil
    \/ AddAdditive
    \/ SetWaterCalcMethod
    \/ LoadRecipeDict
    \/ Query
    \/ GetRecipeDict
    \/ EditReturnedOils

SpecQuery == Init /\ [][NextQuery]_vars

\* C27: a step that is one of the queries get_total_oil_weight,
\* get_lye_weight, get_water_weight, get_batch_properties or get_recipe_dict
\* leaves every field of the calculator (and the tables the results are
\* computed from) unchanged, so every later result is what it would have been
\* without the query; and a step that edits the oil map of the record
\* get_recipe_dict returned leaves the calculator's oil map unchanged.
C27_QueriesArePure ==
    [][ /\ (ops' = ops + 1
              /\ last'[1] \in QueryNames \cup {"get_recipe_dict"})
            => UNCHANGED <<fields, ADDITIVES, OILS>>
        /\ Called("edit returned oils") => oils' = oils ]_vars

\* The caller has edited the record it got and the calculator's oils, which
\* are not empty, differ from the record's.
C27_Witness ==
    /\ last[1] = "edit returned oils"
    /\ oils # <<>>
    /\ recipe_dict.oils.items # oils
    /\ last[3] > 0


C28_Clamped(lo, hi, v) == IF v < lo THEN lo ELSE IF v > hi THEN hi ELSE v

\* The parameter of a method after the call: the clamped value if the call
\* was for that method and gave a value, the old parameter otherwise.
C28_Parameter(m, lo, hi, old, method, value) ==
    IF method = m /\ value # None THEN C28_Clamped(lo, hi, value[1]) ELSE old

\* C28: a step set_water_calc_method(method, value) with method one of ratio,
\* percent, concentration makes it the method; with a value it sets that
\* method's parameter to the value clamped to its range (ratio to 0.5..5,
\* percent to 0..100, concentration to 1..99) and leaves the other two
\* parameters unchanged; without a value it leaves all three unchanged.
C28_SwitchAndClamp ==
    [][ (Called("set_water_calc_method")
            /\ last'[2] \in {"ratio", "percent", "concentration"})
        => LET method == last'[2]
               value == last'[3]
           IN  /\ water_calc_method' = method
               /\ water_to_lye_ratio' =
                     C28_Parameter("ratio", 5, 50, water_to_lye_ratio,
                                   method, value)
               /\ water_percent' =
                     C28_Parameter("percent", 0, 100, water_percent,
                                   method, value)
               /\ lye_concentration' =
                     C28_Parameter("concentration", 1, 99, lye_concentration,
                                   method, value) ]_vars

\* A concentration of 200 given and 99 stored, beside a ratio that an earlier
\* call moved off its default.
C28_Witness ==
    /\ last = <<"set_water_calc_method", "concentration", <<200>>>>
    /\ water_calc_method = "concentration"
    /\ lye_concentration = 99
    /\ water_to_lye_ratio # 20
    /\ water_percent = 30


-----------------------------------------------------------------------------
(* The unit cost across a deduction *)

\* C29: a step deduct_stock(name, a) on a tracked ingredient that leaves a
\* positive remaining quantity leaves get_cost_per_gram(name) at the value it
\* had before the step.
C29_DeductKeepsUnitCost ==
    [][ (Called("deduct_stock")
            /\ last'[2] \in DOMAIN costs
            /\ costs'[last'[2]].quantity > 0)
        => cost_per_gram(costs'[last'[2]]) = cost_per_gram(costs[last'[2]])
      ]_vars

\* What the code does: a deduction keeps the price and the unit of the record
\* and changes the quantity only, so the price is divided by fewer grams.
C29_DeductKeepsPrice ==
    [][ (Called("deduct_stock") /\ last'[2] \in DOMAIN costs)
        => /\ costs'[last'[2]].price = costs[last'[2]].price
           /\ costs'[last'[2]].unit = costs[last'[2]].unit ]_vars


-----------------------------------------------------------------------------
(* BatchManager (src/src/models/batch_manager.py).  batches is the list,    *)
(* index 1 its top.  A new manager with no file has an empty list; the      *)
(* clock is held at one day, written as the number of the day.              *)

\* str(uuid.uuid4()): the ids a new batch can get.
BatchIds == {"uuid-1", "uuid-2", "uuid-3"}

\* datetime.now(), as the number of the day.
Today == 100

\* What batches.json can hold: lists written by an earlier session, one of
\* them with an id that occurs twice.
BatchFiles ==
    LET b(id, status, notes) ==
            [id |-> id, lot_number |-> <<90, "C3D4">>,
             recipe_name |-> "Castile", date_made |-> 90, cure_date |-> 118,
             status |-> status, total_weight |-> 1500,
             recipe_snapshot |-> [name |-> "Castile"], notes |-> notes]
    IN  { <<b("file-1", "Curing", "")>>,
          <<b("file-1", "Ready", ""), b("file-2", "Curing", "gift"),
            b("file-1", "Curing", "")>> }

BatchCall(c) ==
    /\ ops < MaxOps
    /\ ops' = ops + 1
    /\ last' = c
    /\ UNCHANGED <<fields, ADDITIVES, OILS, costs, ledger, gummy,
                   recipe_dict>>

load_batches(file) ==
    /\ BatchCall(<<"load_batches", file>>)
    /\ batches' = file

\* create_batch that appends the new batch.
create_batch_append(recipe_data, notes, id, short_id) ==
    /\ BatchCall(<<"create_batch", recipe_data, notes, id>>)
    /\ batches' = Append(batches,
          [id |-> id, lot_number |-> <<Today, short_id>>,
           recipe_name |-> Get(recipe_data, "name", "Unknown"),
           date_made |-> Today, cure_date |-> Today + 28,
           status |-> "Curing",
           total_weight |-> Get(Get(recipe_data, "properties", <<>>),
                                "total_batch_weight", 0),
           recipe_snapshot |-> recipe_data, notes |-> notes])

\* id and short_id are the two uuid4 values the call draws.
create_batch(recipe_data, notes, id, short_id) ==
    /\ BatchCall(<<"create_batch", recipe_data, notes, id>>)
    /\ LET batch ==
              [id |-> id, lot_number |-> <<Today, short_id>>,
               recipe_name |-> Get(recipe_data, "name", "Unknown"),
               date_made |-> Today, cure_date |-> Today + 28,
               status |-> "Curing",
               total_weight |-> Get(Get(recipe_data, "properties", <<>>),
                                    "total_batch_weight", 0),
               recipe_snapshot |-> recipe_data, notes |-> notes]
       IN  batches' = <<batch>> \o batches

delete_batch(batch_id) ==
    /\ BatchCall(<<"delete_batch", batch_id>>)
    /\ batches' = SelectSeq(batches, LAMBDA b : b.id # batch_id)

\* The index of the first batch with the id, 0 if there is none: where the
\* loops of update_status and update_notes assign and return.
first_with_id(batch_id) ==
    IF \E i \in DOMAIN batches : batches[i].id = batch_id
    THEN CHOOSE i \in DOMAIN batches :
            /\ batches[i].id = batch_id
            /\ \A j \in 1..(i - 1) : batches[j].id # batch_id
    ELSE 0

update_status(batch_id, status) ==
    /\ BatchCall(<<"update_status", batch_id, status>>)
    /\ LET i == first_with_id(batch_id)
       IN  batches' = IF i = 0 THEN batches
                      ELSE [batches EXCEPT ![i].status = status]

update_notes(batch_id, notes) ==
    /\ BatchCall(<<"update_notes", batch_id, notes>>)
    /\ LET i == first_with_id(batch_id)
       IN  batches' = IF i = 0 THEN batches
                      ELSE [batches EXCEPT ![i].notes = notes]

\* The arguments of the calls; "uuid-9" and "file-9" are ids of no batch.
BatchRecipes ==
    { [name |-> "Castile", properties |-> [total_batch_weight |-> 1500]],
      <<>> }
BatchArgIds == {"uuid-1", "uuid-2", "file-1", "uuid-9"}

NextBatch ==
    \/ \E file \in BatchFiles : load_batches(file)
    \/ \E r \in BatchRecipes, notes \in {"", "gift"}, id \in BatchIds,
          short_id \in {"A1B2", "E5F6"} :
          /\ \A i \in DOMAIN batches : batches[i].id # id
          /\ create_batch(r, notes, id, short_id)
    \/ \E id \in BatchArgIds : delete_batch(id)
    \/ \E id \in BatchArgIds, status \in {"Ready", "Sold"} :
          update_status(id, status)
    \/ \E id \in BatchArgIds, notes \in {"reweighed"} : update_notes(id, notes)

SpecBatch == Init /\ [][NextBatch]_vars

\* The batches of s whose id is not the given one, in the order of s.
RECURSIVE C30_Others(_, _)
C30_Others(s, id) ==
    IF s = <<>> THEN <<>>
    ELSE IF Head(s).id = id THEN C30_Others(Tail(s), id)
    ELSE <<Head(s)>> \o C30_Others(Tail(s), id)

C30_Present(id) == \E i \in DOMAIN batches : batches[i].id = id

\* The list differs from the old one in at most the given field of batches
\* with the id, and in that field of at least one of them when there is one.
C30_OnlyField(id, field, value) ==
    /\ Len(batches') = Len(batches)
    /\ \A i \in DOMAIN batches :
          \/ batches'[i] = batches[i]
          \/ /\ batches[i].id = id
             /\ batches'[i] = [batches[i] EXCEPT ![field] = value]
    /\ C30_Present(id) =>
          \E i \in DOMAIN batches :
              batches[i].id = id /\ batches'[i][field] = value

\* C30: create_batch puts the new batch, with status "Curing", at the top of
\* the list and leaves the batches that were there as they were and in their
\* order; delete_batch(id) removes exactly the batches with that id and keeps
\* the order of the rest; update_status and update_notes change nothing but
\* the status, or the notes, of the batch with that id; and delete_batch,
\* update_status and update_notes with an id of no batch leave the list
\* unchanged.
C30_BatchList ==
    [][ /\ Called("create_batch")
            => /\ Len(batches') = Len(batches) + 1
               /\ batches'[1].status = "Curing"
               /\ batches'[1].id = last'[4]
               /\ Tail(batches') = batches
        /\ Called("delete_batch")
            => /\ \A i \in DOMAIN batches' : batches'[i].id # last'[2]
               /\ batches' = C30_Others(batches, last'[2])
        /\ Called("update_status")
            => C30_OnlyField(last'[2], "status", last'[3])
        /\ Called("update_notes")
            => C30_OnlyField(last'[2], "notes", last'[3])
        /\ (/\ ops' = ops + 1
            /\ last'[1] \in {"delete_batch", "update_status", "update_notes"}
            /\ ~C30_Present(last'[2]))
            => batches' = batches ]_vars

\* Two batches made here, the older one since marked with a new status, the
\* newer still curing on top.
C30_Witness ==
    /\ last[1] = "update_status"
    /\ Len(batches) = 2
    /\ \A i \in DOMAIN batches : batches[i].id \in BatchIds
    /\ batches[1].status = "Curing"
    /\ batches[2].id = last[2]
    /\ batches[2].status = last[3]
    /\ batches[1].id # batches[2].id

====
